---- MODULE Spec2Model ----
(***************************************************************************)
(* Verification model of the Excel compatibility checker:                  *)
(*   src/src/utils/excelChecker.ts            (analysis entry point,       *)
(*                                             corruption diagnosis)       *)
(*   src/src/components/FileRecoveryPreview.tsx (content recovery)         *)
(*   src/ms-excel-compatibility-checker/src/components/FileUploader.tsx    *)
(*                                                                         *)
(* Specifications.                                                         *)
(*   Spec        processFile / checkExcelCompatibility, one analysis       *)
(*   SpecDiag    analyzeCorruptedExcel on its own                          *)
(*   SpecPreview the FileRecoveryPreview component's state                 *)
(*   SpecZip     extractTextFromZip, rows and cells of worksheet data      *)
(*   SpecUpload  processFile calls that overlap                            *)
(*   SpecRecover attemptContentRecovery on input buffers                   *)
(*                                                                         *)
(* Conventions.                                                            *)
(*  - A byte buffer is a sequence of integers 0..255; JavaScript's         *)
(*    zero-based bytes[i] is written B(bytes, i).                          *)
(*  - A line of text is a sequence of fragments (strings); the line is     *)
(*    the fragments written one after another.  String.includes(k) is      *)
(*    containment of k's fragments as a contiguous run (Includes).         *)
(*  - TextDecoder.decode followed by includes(<ASCII literal>) is a byte   *)
(*    subsequence search: the decoder maps every ASCII byte to itself and  *)
(*    never consumes an ASCII byte into a replacement character.           *)
(***************************************************************************)
EXTENDS Integers, Sequences, FiniteSets, TLC

\* ------------------------------------------------------------------------
\* Generic helpers
\* ------------------------------------------------------------------------

Null == "null"

\* an absent record
None == [none |-> TRUE]

Min(a, b) == IF a < b THEN a ELSE b

Max(a, b) == IF a > b THEN a ELSE b

\* s.includes(p) on sequences: p occurs in s as a contiguous run
Includes(s, p) ==
  \E i \in 0..(Len(s) - Len(p)) : \A j \in 1..Len(p) : s[i + j] = p[j]

\* p occurs in s at zero-based offset i
OccursAt(s, p, i) ==
  /\ i >= 0
  /\ i + Len(p) <= Len(s)
  /\ \A j \in 1..Len(p) : s[i + j] = p[j]

\* s repeated n times
Repeat(s, n) == [i \in 1..(n * Len(s)) |-> s[((i - 1) % Len(s)) + 1]]

RECURSIVE Concat(_)
\* concatenation of a sequence of sequences
Concat(ss) ==
  IF Len(ss) = 0 THEN <<>>
  ELSE IF Len(ss) = 1 THEN ss[1]
  ELSE LET h == Len(ss) \div 2
       IN  Concat(SubSeq(ss, 1, h)) \o Concat(SubSeq(ss, h + 1, Len(ss)))

RECURSIVE JoinWith(_, _)
\* Array.join: the elements of ss separated by sep
JoinWith(ss, sep) ==
  IF ss = <<>> THEN <<>>
  ELSE IF Len(ss) = 1 THEN ss[1]
  ELSE ss[1] \o sep \o JoinWith(Tail(ss), sep)

\* the set of elements of a sequence
Range(s) == {s[i] : i \in 1..Len(s)}

\* number of elements of s satisfying Test
CountSeq(s, Test(_)) == Cardinality({i \in 1..Len(s) : Test(s[i])})

\* ------------------------------------------------------------------------
\* Byte buffers
\* ------------------------------------------------------------------------

\* a buffer is described by its parts, each a byte pattern repeated n times
Part(of, rep) == [of |-> of, rep |-> rep]

Bytes(buf) == Concat([k \in 1..Len(buf) |-> Repeat(buf[k].of, buf[k].rep)])

\* what reading a typed array outside its bounds gives: undefined, which is
\* equal to no byte value
Undefined == -1

\* zero-based byte access bytes[i]
B(bytes, i) == IF i >= 0 /\ i < Len(bytes) THEN bytes[i + 1] ELSE Undefined

\* Uint8Array.slice(0, n)
Slice0(bytes, n) == SubSeq(bytes, 1, Min(Len(bytes), n))

\* total length of a described buffer, without building it
RECURSIVE BufLen(_)
BufLen(buf) ==
  IF buf = <<>> THEN 0
  ELSE Len(Head(buf).of) * Head(buf).rep + BufLen(Tail(buf))

\* ASCII literals the code searches for
Lit ==
  [ ContentTypes |-> <<91, 67, 111, 110, 116, 101, 110, 116, 95, 84, 121, 112, 101, 115, 93, 46, 120, 109, 108>>,
    WorkbookXml |-> <<119, 111, 114, 107, 98, 111, 111, 107, 46, 120, 109, 108>>,
    Sheet |-> <<115, 104, 101, 101, 116>>,
    StylesXml |-> <<115, 116, 121, 108, 101, 115, 46, 120, 109, 108>>,
    SharedStrings |-> <<115, 104, 97, 114, 101, 100, 83, 116, 114, 105, 110, 103, 115>>,
    EncryptedPackage |-> <<69, 110, 99, 114, 121, 112, 116, 101, 100, 80, 97, 99, 107, 97, 103, 101>>,
    encryption |-> <<101, 110, 99, 114, 121, 112, 116, 105, 111, 110>>,
    EncryptionInfo |-> <<69, 110, 99, 114, 121, 112, 116, 105, 111, 110, 73, 110, 102, 111>>,
    StrongEncryptionDataSpace |-> <<83, 116, 114, 111, 110, 103, 69, 110, 99, 114, 121, 112, 116, 105, 111, 110, 68, 97, 116, 97, 83, 112, 97, 99, 101>> ]

\* ------------------------------------------------------------------------
\* performDeepExcelAnalysis (excelChecker.ts 9-128)
\* ------------------------------------------------------------------------

Line ==
  [ NoSignature |-> <<"File", "does", "not", "have", "a", "valid", "Excel", "signature", ".">>,
    Pdf |-> <<"The", "file", "appears", "to", "be", "a", "PDF", "file", "with", "an", "Excel", "extension", ".">>,
    Jpeg |-> <<"The", "file", "appears", "to", "be", "a", "JPEG", "image", "with", "an", "Excel", "extension", ".">>,
    Png |-> <<"The", "file", "appears", "to", "be", "a", "PNG", "image", "with", "an", "Excel", "extension", ".">>,
    NotOoxml |-> <<"The", "file", "is", "a", "ZIP", "archive", "but", "does", "not", "appear", "to", "be", "a", "valid", "Office", "Open", "XML", "document", ".">>,
    XlsxSignature |-> <<"File", "has", "a", "valid", "XLSX/", "ZIP", "signature", ".">>,
    NoCentralDir |-> <<"ZIP", "Central", "Directory", "is", "missing", "or", "corrupt", ".">>,
    NotClosed |-> <<"This", "indicates", "the", "file", "was", "not", "properly", "closed", "when", "saved", "or", "was", "truncated", ".">>,
    MissingPrefix |-> <<"Missing", "essential", "XLSX", "components", ":">>,
    SevereCorruption |-> <<"Missing", "[Content_Types].xml", "indicates", "severe", "corrupt", "ion", ".">>,
    XlsSignature |-> <<"File", "has", "a", "valid", "binary", "XLS", "(BIFF)", "format", "signature", ".">>,
    XlsAsXlsx |-> <<"The", "file", "is", "in", "the", "older", "XLS", "format", "but", "has", "an", ".xlsx", "extension", ".", "This", "mismatch", "can", "cause", "compatibility", "issues", ".">>,
    SmallFile |-> <<"File", "size", "is", "suspiciously", "small", "for", "a", "functional", "Excel", "workbook", ".">>,
    Truncated |-> <<"File", "appears", "to", "be", "truncated", "(premature", "end", "of", "file)", ".">>,
    Encrypted |-> <<"File", "appears", "to", "be", "password", "protected", "or", "encrypted", ".">>,
    NeedPassword |-> <<"Password-protected", "files", "cannot", "be", "analyzed", "without", "the", "correct", "password", ".">>,
    AnalysisErrorPrefix |-> <<"Error", "during", "detailed", "analysis", ":">>,
    RawErrorPrefix |-> <<"Raw", "error", ":">>,
    Blank |-> <<>> ]

SigLenXlsx == 4

SigLenXls == 8

hasValidXlsxSignature(bytes) ==
  /\ Len(bytes) >= SigLenXlsx
  /\ B(bytes, 0) = 80 /\ B(bytes, 1) = 75
  /\ B(bytes, 2) = 3 /\ B(bytes, 3) = 4

\* a plausible slip: an off-by-one length test
hasValidXlsSignature_lengthOffByOne(bytes) ==
  /\ Len(bytes) > SigLenXls
  /\ B(bytes, 0) = 208 /\ B(bytes, 1) = 207
  /\ B(bytes, 2) = 17 /\ B(bytes, 3) = 224

hasValidXlsSignature(bytes) ==
  /\ Len(bytes) >= SigLenXls
  /\ B(bytes, 0) = 208 /\ B(bytes, 1) = 207
  /\ B(bytes, 2) = 17 /\ B(bytes, 3) = 224

\* the least length at which the foreign signatures are compared (line 28)
ForeignSigLen == 4

\* a plausible slip: the three-byte JPEG signature taken as the least length
ForeignFormat_lengthFromThree(bytes) ==
  IF Len(bytes) >= ForeignSigLen - 1
  THEN IF B(bytes, 0) = 37 /\ B(bytes, 1) = 80 /\ B(bytes, 2) = 68
       THEN <<Line.Pdf>>
       ELSE IF B(bytes, 0) = 255 /\ B(bytes, 1) = 216 /\ B(bytes, 2) = 255
       THEN <<Line.Jpeg>>
       ELSE IF B(bytes, 0) = 137 /\ B(bytes, 1) = 80 /\ B(bytes, 2) = 78
       THEN <<Line.Png>>
       ELSE <<>>
  ELSE <<>>

\* lines 28-48: another format masquerading as Excel
ForeignFormat(bytes) ==
  IF Len(bytes) >= ForeignSigLen
  THEN IF B(bytes, 0) = 37 /\ B(bytes, 1) = 80 /\ B(bytes, 2) = 68 /\ B(bytes, 3) = 70
       THEN <<Line.Pdf>>
       ELSE IF B(bytes, 0) = 255 /\ B(bytes, 1) = 216 /\ B(bytes, 2) = 255
       THEN <<Line.Jpeg>>
       ELSE IF B(bytes, 0) = 137 /\ B(bytes, 1) = 80 /\ B(bytes, 2) = 78 /\ B(bytes, 3) = 71
       THEN <<Line.Png>>
       ELSE IF hasValidXlsxSignature(bytes) /\ Len(bytes) > 100
       THEN IF /\ ~Includes(Slice0(bytes, 1000), Lit.WorkbookXml)
               /\ ~Includes(Slice0(bytes, 1000), Lit.ContentTypes)
            THEN <<Line.NotOoxml>>
            ELSE <<>>
       ELSE <<>>
  ELSE <<>>

EocdRecordLen == 22

\* a plausible slip: only the "PK" half of the signature is compared
hasCentralDir_twoByteMatch(bytes) ==
  \E i \in 0..(Len(bytes) - EocdRecordLen) :
     B(bytes, i) = 80 /\ B(bytes, i + 1) = 75

\* a plausible slip: the scan starts at the last offset that holds four bytes
hasCentralDir_fromLastOffset(bytes) ==
  \E i \in 0..(Len(bytes) - Len(<<80, 75, 5, 6>>)) :
     /\ B(bytes, i) = 80 /\ B(bytes, i + 1) = 75
     /\ B(bytes, i + 2) = 5 /\ B(bytes, i + 3) = 6

\* lines 58-66: backward scan for the End of Central Directory signature
hasCentralDir(bytes) ==
  \E i \in 0..(Len(bytes) - EocdRecordLen) :
     /\ B(bytes, i) = 80 /\ B(bytes, i + 1) = 75
     /\ B(bytes, i + 2) = 5 /\ B(bytes, i + 3) = 6

ComponentSampleLen == 3000

requiredComponents ==
  << [name |-> "[Content_Types].xml", lit |-> Lit.ContentTypes],
     [name |-> "workbook.xml", lit |-> Lit.WorkbookXml],
     [name |-> "sheet", lit |-> Lit.Sheet],
     [name |-> "styles.xml", lit |-> Lit.StylesXml],
     [name |-> "sharedStrings", lit |-> Lit.SharedStrings] >>

\* lines 73-85
missingComponents(bytes) ==
  LET textSample == Slice0(bytes, ComponentSampleLen)
  IN  SelectSeq(requiredComponents, LAMBDA c : ~Includes(textSample, c.lit))

\* lines 52-95: findings for a ZIP-signed buffer
ZipStructure(bytes) ==
  LET missing == missingComponents(bytes)
      names == [k \in 1..Len(missing) |-> <<missing[k].name>>]
  IN  <<Line.XlsxSignature>>
      \o (IF ~hasCentralDir(bytes) THEN <<Line.NoCentralDir, Line.NotClosed>> ELSE <<>>)
      \o (IF Len(missing) > 0
          THEN <<Line.MissingPrefix \o JoinWith(names, <<",">>)>>
               \o (IF \E k \in 1..Len(missing) : missing[k].name = "[Content_Types].xml"
                   THEN <<Line.SevereCorruption>> ELSE <<>>)
          ELSE <<>>)

SmallFileMax == 2000

SmallFileMin == 100

TailWindow == 100

\* Uint8Array.includes(value, fromIndex) with fromIndex >= 0
BytesIncludeFrom(bytes, value, fromIndex) ==
  \E i \in fromIndex..(Len(bytes) - 1) : B(bytes, i) = value

\* a plausible slip: the check for a truncated file stands beside the size
\* check, not inside it
SizeConsistency_truncatedAtAnySize(bytes) ==
  (IF Len(bytes) < SmallFileMax /\ Len(bytes) > SmallFileMin
   THEN <<Line.SmallFile>> ELSE <<>>)
  \o (IF /\ hasValidXlsxSignature(bytes)
         /\ Len(bytes) >= TailWindow
         /\ ~BytesIncludeFrom(bytes, 80, Len(bytes) - TailWindow)
      THEN <<Line.Truncated>> ELSE <<>>)

\* lines 103-111
SizeConsistency(bytes) ==
  IF Len(bytes) < SmallFileMax /\ Len(bytes) > SmallFileMin
  THEN <<Line.SmallFile>>
       \o (IF /\ hasValidXlsxSignature(bytes)
              /\ ~BytesIncludeFrom(bytes, 80, Len(bytes) - TailWindow)
           THEN <<Line.Truncated>> ELSE <<>>)
  ELSE <<>>

PasswordMinLen == 500

PasswordSampleLen == 2000

\* a plausible slip: the markers are looked for in the whole buffer
PasswordProtection_wholeBuffer(bytes) ==
  IF Len(bytes) > PasswordMinLen
  THEN IF \/ Includes(bytes, Lit.EncryptedPackage)
          \/ Includes(bytes, Lit.encryption)
          \/ Includes(bytes, Lit.EncryptionInfo)
          \/ Includes(bytes, Lit.StrongEncryptionDataSpace)
       THEN <<Line.Encrypted, Line.NeedPassword>>
       ELSE <<>>
  ELSE <<>>

\* lines 113-125
PasswordProtection(bytes) ==
  IF Len(bytes) > PasswordMinLen
  THEN LET textSample == Slice0(bytes, PasswordSampleLen)
       IN  IF \/ Includes(textSample, Lit.EncryptedPackage)
              \/ Includes(textSample, Lit.encryption)
              \/ Includes(textSample, Lit.EncryptionInfo)
              \/ Includes(textSample, Lit.StrongEncryptionDataSpace)
           THEN <<Line.Encrypted, Line.NeedPassword>>
           ELSE <<>>
  ELSE <<>>

\* file.name.endsWith('.xlsx'): case-sensitive comparison of the extension
EndsWithXlsx(name) == name.ext = "xlsx"

\* the ordered findings for a file whose bytes were read
performDeepExcelAnalysis(f) ==
  LET bytes == Bytes(f.buf)
      xlsx == hasValidXlsxSignature(bytes)
      xls == hasValidXlsSignature(bytes)
  IN  (IF ~xlsx /\ ~xls THEN <<Line.NoSignature>> \o ForeignFormat(bytes) ELSE <<>>)
      \o (IF xlsx THEN ZipStructure(bytes)
          ELSE IF xls
          THEN <<Line.XlsSignature>>
               \o (IF EndsWithXlsx(f.name) THEN <<Line.XlsAsXlsx>> ELSE <<>>)
          ELSE <<>>)
      \o SizeConsistency(bytes)
      \o PasswordProtection(bytes)

\* ------------------------------------------------------------------------
\* Files
\* ------------------------------------------------------------------------

\* a File: name (stem and extension), lastModified, content; File.size is
\* the length of the content
FileSize(f) == BufLen(f.buf)

\* String.toLowerCase on the extensions the model uses
ToLowerCase(s) ==
  CASE s = "XLSX" -> "xlsx"
    [] s = "Xls" -> "xls"
    [] OTHER -> s

\* the fragments of a file name
NameText(name) == IF name.ext = "" THEN <<name.stem>> ELSE <<name.stem, ".", name.ext>>

\* Number.toFixed(2) of n / d: round half up to hundredths
ToFixed2(n, d) ==
  LET h == (2 * 100 * n + d) \div (2 * d)
  IN  <<ToString(h \div 100), ".", ToString((h \div 10) % 10), ToString(h % 10)>>

\* Date.toLocaleString of a timestamp
LocaleString(t) == <<"Date(", ToString(t), ")">>

\* the message of the error a failed File.arrayBuffer() rejects with
ReadErrorMsg == <<"The", "requested", "file", "could", "not", "be", "read", ".">>

\* ------------------------------------------------------------------------
\* analyzeCorruptedExcel (excelChecker.ts 134-214)
\* ------------------------------------------------------------------------

Pattern ==
  [ UnsupportedCompression |-> <<"Unsupported", "ZIP", "Compression", "method", "NaN">>,
    LocalFileHeader |-> <<"Local", "File", "Header", "signature", "not", "found">>,
    EndOfCentralDir |-> <<"End", "of", "Central", "Directory", "Record", "not", "found">>,
    HeaderCheck |-> <<"incorrect", "header", "check">> ]
Keyword ==
  [ ZIP |-> <<"ZIP">>,
    NaN |-> <<"NaN">>,
    compression |-> <<"compression">>,
    XlsFormat |-> <<"XLS", "format">>,
    PasswordProtected |-> <<"password", "protected">>,
    truncated |-> <<"truncated">>,
    CentralDirMissing |-> <<"ZIP", "Central", "Directory", "is", "missing">>,
    MissingComponents |-> <<"Missing", "essential", "XLSX", "components">> ]

Issue ==
  [ Unsupported1 |-> <<"The", "file", "uses", "an", "unsupported", "compression", "method", "(", "NaN", ")", ".">>,
    Unsupported2 |-> <<"This", "typically", "happens", "with", "Excel", "files", "saved", "in", "very", "old", "versions", "or", "with", "non-standard", "tools", ".">>,
    LocalHeader1 |-> <<"ZIP", "file", "structure", "is", "invalid", "-", "Local", "File", "Header", "signature", "missing", ".">>,
    LocalHeader2 |-> <<"This", "suggests", "the", "file", "has", "been", "truncated", "or", "corrupt", "ed", "during", "transfer", ".">>,
    EndOfDir1 |-> <<"ZIP", "file", "structure", "is", "invalid", "-", "End", "of", "Central", "Directory", "Record", "missing", ".">>,
    EndOfDir2 |-> <<"This", "suggests", "the", "file", "is", "incomplete", "or", "was", "not", "properly", "finalized", "when", "saved", ".">>,
    HeaderCheck1 |-> <<"ZIP", "compression", "header", "is", "invalid", "or", "corrupt", "ed", ".">>,
    HeaderCheck2 |-> <<"This", "often", "happens", "when", "file", "transfers", "are", "interrupted", "or", "when", "files", "are", "corrupt", "ed", "in", "storage", ".">>,
    Unknown1 |-> <<"Unable", "to", "determine", "the", "exact", "corrupt", "ion", "issue", ".">>,
    Unknown3 |-> <<"The", "file", "might", "be", "corrupt", "ed", ",", "password", "protected", ",", "or", "use", "an", "unsupported", "format", ".">> ]
Advice ==
  [ Unsupported1 |-> <<"Try", "opening", "the", "file", "in", "Microsoft", "Excel", "and", "using", "\"Save", "As\"", "to", "create", "a", "new", "XLSX", "file", ".">>,
    Unsupported2 |-> <<"If", "the", "original", "file", "cannot", "be", "opened", ",", "try", "a", "file", "recovery", "tool", "like", "\"Office", "File", "Recovery\"", ".">>,
    LocalHeader1 |-> <<"Request", "the", "original", "file", "again", "if", "it", "was", "shared", "with", "you", ".">>,
    LocalHeader2 |-> <<"Check", "if", "your", "antivirus", "software", "might", "be", "corrupt", "ing", "the", "file", "during", "download", ".">>,
    EndOfDir1 |-> <<"Try", "using", "a", "ZIP", "repair", "tool", "to", "fix", "the", "file", "structure", ".">>,
    EndOfDir2 |-> <<"If", "possible", ",", "try", "to", "recreate", "the", "Excel", "file", "from", "the", "source", ".">>,
    HeaderCheck1 |-> <<"Try", "downloading", "the", "file", "again", "or", "requesting", "a", "new", "copy", ".">>,
    RenameXls |-> <<"This", "appears", "to", "be", "a", "binary", "XLS", "file", ".", "Try", "renaming", "it", "with", ".xls", "extension", "and", "opening", "in", "Excel", ".">>,
    Password |-> <<"You", "need", "the", "original", "password", "to", "open", "this", "file", ".", "Contact", "the", "file", "creator", "for", "the", "password", ".">>,
    Incomplete |-> <<"The", "file", "appears", "to", "be", "incomplete", ".", "Try", "to", "obtain", "a", "complete", "copy", "of", "the", "file", ".">>,
    ZipRepair |-> <<"Try", "using", "a", "ZIP", "repair", "tool", "like", "\"ZipRepair\"", "or", "\"DiskInternals", "ZIP", "Repair\"", "to", "rebuild", "the", "central", "directory", ".">>,
    OpenAndRepair |-> <<"The", "internal", "structure", "of", "the", "Excel", "file", "is", "damaged", ".", "Try", "Excel's", "built-in", "repair", "feature", "by", "opening", "Excel", "first", ",", "then", "using", "File", ">", "Open", "and", "selecting", "\"Open", "and", "Repair\"", ".">>,
    Unknown1 |-> <<"Try", "using", "Microsoft", "Excel's", "built-in", "repair", "feature", ".">>,
    Unknown2 |-> <<"If", "the", "file", "is", "crucial", ",", "consider", "using", "a", "commercial", "Excel", "recovery", "tool", ".">> ]
Heading ==
  [ IssueDetails |-> <<"===", "ISSUE", "DETAILS", "===">>,
    Recommendations |-> <<"===", "REPAIR", "RECOMMENDATIONS", "===">>,
    Technical |-> <<"===", "TECHNICAL", "DETAILS", "===">> ]

\* the fixed issue/remediation pair of each known failure category
CatUnsupported ==
  [issues |-> <<Issue.Unsupported1, Issue.Unsupported2>>,
   recommendations |-> <<Advice.Unsupported1, Advice.Unsupported2>>]

CatLocalHeader ==
  [issues |-> <<Issue.LocalHeader1, Issue.LocalHeader2>>,
   recommendations |-> <<Advice.LocalHeader1, Advice.LocalHeader2>>]

CatEndOfDir ==
  [issues |-> <<Issue.EndOfDir1, Issue.EndOfDir2>>,
   recommendations |-> <<Advice.EndOfDir1, Advice.EndOfDir2>>]

CatHeaderCheck ==
  [issues |-> <<Issue.HeaderCheck1, Issue.HeaderCheck2>>,
   recommendations |-> <<Advice.HeaderCheck1>>]

CatNone == [issues |-> <<>>, recommendations |-> <<>>]

\* a plausible slip: four independent ifs instead of one if / else-if chain
ErrorPatternStage_independentIfs(errorMsg) ==
  LET pick(p, c) == IF Includes(errorMsg, p) THEN c ELSE CatNone
      cs == << pick(Pattern.UnsupportedCompression, CatUnsupported),
               pick(Pattern.LocalFileHeader, CatLocalHeader),
               pick(Pattern.EndOfCentralDir, CatEndOfDir),
               pick(Pattern.HeaderCheck, CatHeaderCheck) >>
  IN  [issues |-> Concat([k \in 1..4 |-> cs[k].issues]),
       recommendations |-> Concat([k \in 1..4 |-> cs[k].recommendations])]

\* a plausible slip: the chain tests the patterns in the opposite order
ErrorPatternStage_lastPatternFirst(errorMsg) ==
  IF Includes(errorMsg, Pattern.HeaderCheck) THEN CatHeaderCheck
  ELSE IF Includes(errorMsg, Pattern.EndOfCentralDir) THEN CatEndOfDir
  ELSE IF Includes(errorMsg, Pattern.LocalFileHeader) THEN CatLocalHeader
  ELSE IF Includes(errorMsg, Pattern.UnsupportedCompression) THEN CatUnsupported
  ELSE CatNone

\* lines 139-159: the first matching pattern supplies issues and remediation
ErrorPatternStage(errorMsg) ==
  IF Includes(errorMsg, Pattern.UnsupportedCompression) THEN CatUnsupported
  ELSE IF Includes(errorMsg, Pattern.LocalFileHeader) THEN CatLocalHeader
  ELSE IF Includes(errorMsg, Pattern.EndOfCentralDir) THEN CatEndOfDir
  ELSE IF Includes(errorMsg, Pattern.HeaderCheck) THEN CatHeaderCheck
  ELSE CatNone

\* deepAnalysisResults.some(result => result.includes(k))
SomeIncludes(lines, k) == \E i \in 1..Len(lines) : Includes(lines[i], k)

\* lines 166-185: further remediation from the findings
DeepRecommendations(deep) ==
  (IF SomeIncludes(deep, Keyword.XlsFormat) THEN <<Advice.RenameXls>> ELSE <<>>)
  \o (IF SomeIncludes(deep, Keyword.PasswordProtected) THEN <<Advice.Password>> ELSE <<>>)
  \o (IF SomeIncludes(deep, Keyword.truncated) THEN <<Advice.Incomplete>> ELSE <<>>)
  \o (IF SomeIncludes(deep, Keyword.CentralDirMissing) THEN <<Advice.ZipRepair>> ELSE <<>>)
  \o (IF SomeIncludes(deep, Keyword.MissingComponents) THEN <<Advice.OpenAndRepair>> ELSE <<>>)

\* lines 161-188: the findings are appended when the file could be read, an
\* error line when the read failed
DeepStage(st, f, readOk) ==
  IF readOk
  THEN LET deep == performDeepExcelAnalysis(f)
       IN  [issues |-> st.issues \o deep,
            recommendations |-> st.recommendations \o DeepRecommendations(deep)]
  ELSE [issues |-> st.issues \o <<Line.AnalysisErrorPrefix \o ReadErrorMsg>>,
        recommendations |-> st.recommendations]

\* lines 190-197: nothing specific was determined
UnknownStage(st, errorMsg) ==
  IF Len(st.issues) = 0
  THEN [issues |-> st.issues
                   \o <<Issue.Unknown1, Line.RawErrorPrefix \o errorMsg, Issue.Unknown3>>,
        recommendations |-> st.recommendations \o <<Advice.Unknown1, Advice.Unknown2>>]
  ELSE st

KB == 1024

\* lines 207-210
TechnicalDetails(f) ==
  << <<"File", "name", ":">> \o NameText(f.name),
     <<"File", "size", ":">> \o ToFixed2(FileSize(f), KB) \o <<"KB">>,
     <<"Last", "modified", ":">> \o LocaleString(f.lastModified) >>

\* the diagnosis, by section
analyzeCorruptedExcel(f, errorMsg, readOk) ==
  LET st == UnknownStage(DeepStage(ErrorPatternStage(errorMsg), f, readOk), errorMsg)
  IN  [issues |-> st.issues,
       recommendations |-> st.recommendations,
       technical |-> TechnicalDetails(f)]

\* lines 199-213: the lines of the returned text
diagnosticsReport(d) ==
  <<Heading.IssueDetails>> \o d.issues \o <<Line.Blank>>
  \o <<Heading.Recommendations>> \o d.recommendations \o <<Line.Blank>>
  \o <<Heading.Technical>> \o d.technical

\* ------------------------------------------------------------------------
\* extractBasicMetadata (excelChecker.ts 220-273)
\* ------------------------------------------------------------------------

\* the least element of a non-empty set of integers
MinSet(S) == CHOOSE x \in S : \A y \in S : x <= y

\* the text of decoded bytes, one fragment per character
DecodeText(bs) == [k \in 1..Len(bs) |-> ToString(bs[k])]

\* the characters the regular expression's "." does not match
IsLineTerminator(b) == b = 10 \/ b = 13

\* the fragments the patterns of lines 229-253 are built from
Markup ==
  [ CreatorOpen |-> <<100, 99, 58, 99, 114, 101, 97, 116, 111, 114, 62>>,
    CreatorClose |-> <<60, 47, 100, 99, 58, 99, 114, 101, 97, 116, 111, 114>>,
    ModifiedOpen |-> <<99, 112, 58, 108, 97, 115, 116, 77, 111, 100, 105, 102, 105, 101, 100, 66, 121, 62>>,
    ModifiedClose |-> <<60, 47, 99, 112, 58, 108, 97, 115, 116, 77, 111, 100, 105, 102, 105, 101, 100, 66, 121>>,
    CreatedOpen |-> <<100, 99, 116, 101, 114, 109, 115, 58, 99, 114, 101, 97, 116, 101, 100, 62>>,
    CreatedClose |-> <<60, 47, 100, 99, 116, 101, 114, 109, 115, 58, 99, 114, 101, 97, 116, 101, 100>>,
    AppOpen |-> <<65, 112, 112, 108, 105, 99, 97, 116, 105, 111, 110, 62>>,
    AppClose |-> <<60, 47, 65, 112, 112, 108, 105, 99, 97, 116, 105, 111, 110>>,
    SheetNameOpen |-> <<60, 115, 104, 101, 101, 116, 32, 110, 97, 109, 101, 61, 34>>,
    Quote |-> <<34>> ]

\* open(.*?)close matched with "open" at offset i: the offset of the closing
\* literal, or -1 when the lazy group cannot reach one on the same line
CloseOffset(w, i, open, close) ==
  LET from == i + Len(open)
      js == {j \in from..(Len(w) - Len(close)) : OccursAt(w, close, j)}
  IN  IF js = {} THEN -1
      ELSE LET j == MinSet(js)
           IN  IF \E k \in from..(j - 1) : IsLineTerminator(B(w, k)) THEN -1 ELSE j

\* the leftmost match of open(.*?)close at or after offset pos:
\* [at, close], or NoMatch
NoMatch == [at |-> -1, close |-> -1]

FirstMatch(w, pos, open, close) ==
  LET is == {i \in pos..(Len(w) - Len(open)) :
               OccursAt(w, open, i) /\ CloseOffset(w, i, open, close) # -1}
  IN  IF is = {} THEN NoMatch
      ELSE LET i == MinSet(is)
           IN  [at |-> i, close |-> CloseOffset(w, i, open, close)]

\* String.match(/open(.*?)close/): the captured group, or Null
Capture(w, open, close) ==
  LET m == FirstMatch(w, 0, open, close)
  IN  IF m = NoMatch THEN Null
      ELSE SubSeq(w, m.at + Len(open) + 1, m.close)

RECURSIVE CapturesFrom(_, _, _, _)
\* String.match(/open(.*?)close/g): the groups of all matches, left to right
CapturesFrom(w, pos, open, close) ==
  LET m == FirstMatch(w, pos, open, close)
  IN  IF m = NoMatch THEN <<>>
      ELSE <<SubSeq(w, m.at + Len(open) + 1, m.close)>>
           \o CapturesFrom(w, m.close + Len(close), open, close)

MetadataSampleLen == 10000

Field(key, value) == [key |-> key, value |-> value]

\* lines 229-250: a field is set when its pattern matched and the group is
\* not empty
SingleField(w, key, open, close) ==
  LET c == Capture(w, open, close)
  IN  IF c # Null /\ c # <<>> THEN <<Field(key, DecodeText(c))>> ELSE <<>>

\* lines 252-266
SheetFields(w) ==
  LET sheetNames == CapturesFrom(w, 0, Markup.SheetNameOpen, Markup.Quote)
      texts == [k \in 1..Len(sheetNames) |-> DecodeText(sheetNames[k])]
  IN  IF Len(sheetNames) > 0
      THEN << Field("sheets", JoinWith(texts, <<", ">>)),
              Field("sheetCount", <<ToString(Len(sheetNames))>>) >>
      ELSE <<>>

\* the metadata mapping, as its entries in insertion order
extractBasicMetadata(f, readOk) ==
  IF readOk
  THEN LET w == Slice0(Bytes(f.buf), MetadataSampleLen)
       IN  SingleField(w, "creator", Markup.CreatorOpen, Markup.CreatorClose)
           \o SingleField(w, "lastModifiedBy", Markup.ModifiedOpen, Markup.ModifiedClose)
           \o SingleField(w, "creationDate", Markup.CreatedOpen, Markup.CreatedClose)
           \o SingleField(w, "application", Markup.AppOpen, Markup.AppClose)
           \o SheetFields(w)
  ELSE <<Field("extractionError", ReadErrorMsg)>>

\* ------------------------------------------------------------------------
\* CheckResult entries and the limit checks (excelChecker.ts 423-709)
\* ------------------------------------------------------------------------

\* a CheckResult; an absent details or location is Null
Result(status, message, details, location) ==
  [status |-> status, message |-> message, details |-> details, location |-> location]

Text ==
  [ RecoveredMetadata |-> <<"Recovered", "Metadata", ":">>,
    RecoveredMetadataHeading |-> <<"===", "RECOVERED", "METADATA", "===">>,
    InvalidFormat |-> <<"Invalid", "or", "corrupt", "ed", "Excel", "file", "format">>,
    ZipThrow |-> <<"Unsupported", "ZIP", "compression", "method", "or", "corrupt", "ed",
                   "Excel", "file", ".", "Please", "try", "resaving", "the", "file", "in",
                   "a", "newer", "version", "of", "Excel", ".">>,
    DetailedDiagnostics |-> <<"Detailed", "diagnostics", ":">>,
    ValidExtensions |-> <<"Valid", "extensions", "are", ".xlsx", ",", ".xls", ",", ".xlsm",
                          ",", "and", ".xlsb">>,
    NoWorksheetInfo |-> <<"Unable", "to", "detect", "worksheet", "information">>,
    MacroAdvice |-> <<"VBA", "macros", "may", "have", "compatibility", "issues", "between",
                      "different", "Excel", "versions", ".">> ]

\* file.name.match(/\.(xlsx|xls|xlsm|xlsb)$/i)
HasExcelExtension(name) == ToLowerCase(name.ext) \in {"xlsx", "xls", "xlsm", "xlsb"}

MinFileSize == 128

isValidExcelFile(f) == HasExcelExtension(f.name) /\ ~(FileSize(f) < MinFileSize)

MaxSizeBytes == 104857600

checkFileFormat(f) ==
  IF ~HasExcelExtension(f.name)
  THEN <<Result("error", "File does not have a valid Excel extension",
                <<Text.ValidExtensions>>, Null)>>
  ELSE IF FileSize(f) > MaxSizeBytes
  THEN <<Result("warning", "File size exceeds recommended limit",
                << <<"The", "file", "is">> \o ToFixed2(FileSize(f), KB * KB)
                   \o <<"MB", ".", "Excel", "works", "best", "with", "files", "under",
                        "100MB", ".">> >>, Null)>>
  ELSE <<Result("success", "File size is within recommended limits", Null, Null)>>

\* a SheetJS workbook: SheetNames is a sequence of names (each a sequence of
\* characters), namesIsArray tells whether the property is there and is an
\* array; Sheets maps names to
\* worksheets [ref, cells]; ref is None, BadRef or the last row and column of
\* the decoded '!ref'; a cell is [addr, f] with f the formula's length, 0 for
\* a cell without formula
HasSheetNames(wb) == wb.namesIsArray

BadRef == [bad |-> TRUE]

MaxSheets == 255
MaxSheetNameLen == 31
InvalidNameChars == {"\\", "/", "*", "?", "[", "]", ":"}

Quoted(name) == <<"\"">> \o name \o <<"\"">>

\* a plausible slip: the limit itself is taken as too long
SheetNameResults_lengthFrom31(name) ==
  (IF Len(name) >= MaxSheetNameLen
   THEN <<Result("error", "Sheet name too long", <<>>, name)>>
   ELSE <<>>)
  \o (IF \E k \in 1..Len(name) : name[k] \in InvalidNameChars
      THEN <<Result("error", "Invalid characters in sheet name", <<>>, name)>>
      ELSE <<>>)

\* lines 505-521: the entries for one sheet name
SheetNameResults(name) ==
  (IF Len(name) > MaxSheetNameLen
   THEN <<Result("error", "Sheet name too long",
                 << <<"The", "sheet">> \o Quoted(name)
                    \o <<"has", "a", "name", "longer", "than", "31", "characters", ",",
                         "which", "is", "not", "supported", "by", "Excel", ".">> >>,
                 name)>>
   ELSE <<>>)
  \o (IF \E k \in 1..Len(name) : name[k] \in InvalidNameChars
      THEN <<Result("error", "Invalid characters in sheet name",
                    << <<"The", "sheet">> \o Quoted(name)
                       \o <<"contains", "characters", "not", "supported", "by", "Excel",
                            ":", "\\", "/", "*", "?", "[", "]", ":">> >>,
                    name)>>
      ELSE <<>>)

checkWorkbookStructure(wb) ==
  IF ~HasSheetNames(wb)
  THEN <<Result("error", "Invalid workbook structure", <<Text.NoWorksheetInfo>>, Null)>>
  ELSE LET sheetCount == Len(wb.SheetNames)
       IN  (IF sheetCount > MaxSheets
            THEN <<Result("error", "Too many worksheets",
                          << <<"The", "workbook", "contains", ToString(sheetCount),
                               "worksheets", ".", "Excel", "supports", "a", "maximum",
                               "of", "255", ".">> >>, Null)>>
            ELSE <<Result("success", "Worksheet count is within Excel limits", Null, Null)>>)
           \o Concat([k \in 1..sheetCount |-> SheetNameResults(wb.SheetNames[k])])

MaxRowIndex == 1048575
MaxColIndex == 16383

\* lines 547-576: the entries for one worksheet with a reference range
CellLimitResults(name, ref) ==
  IF ref = BadRef
  THEN <<Result("warning", "Unable to check cell limits",
                << <<"Could", "not", "analyze", "cell", "range", "for", "sheet">>
                   \o Quoted(name) >>, name)>>
  ELSE (IF ref.r > MaxRowIndex
        THEN <<Result("error", "Too many rows",
                      << <<"Sheet">> \o Quoted(name)
                         \o <<"contains", "data", "beyond", "row", "1,048,576", ",",
                              "which", "is", "Excel's", "limit", ".">> >>, name)>>
        ELSE <<>>)
       \o (IF ref.c > MaxColIndex
           THEN <<Result("error", "Too many columns",
                         << <<"Sheet">> \o Quoted(name)
                            \o <<"contains", "data", "beyond", "column", "XFD",
                                 "(", "16,384", ")", ",", "which", "is", "Excel's",
                                 "limit", ".">> >>, name)>>
           ELSE <<>>)

\* workbook.Sheets[sheetName] exists
HasSheet(wb, name) == name \in DOMAIN wb.Sheets

checkCellFormats(wb) ==
  IF ~HasSheetNames(wb) THEN <<>>
  ELSE Concat([k \in 1..Len(wb.SheetNames) |->
         LET name == wb.SheetNames[k]
         IN  IF ~HasSheet(wb, name) THEN <<>>
             ELSE IF wb.Sheets[name].ref = None THEN <<>>
             ELSE CellLimitResults(name, wb.Sheets[name].ref)])

MaxFormulaLen == 8192

\* lines 599-614: the entries for the cells of one worksheet
FormulaResults(name, cells) ==
  Concat([k \in 1..Len(cells) |->
    IF cells[k].f > MaxFormulaLen
    THEN <<Result("error", "Formula too long",
                  << <<"Formula", "in">> \o name \o <<"!">> \o cells[k].addr
                     \o <<"exceeds", "Excel's", "maximum", "length", "of", "8,192",
                          "characters", ".">> >>,
                  name \o <<"!">> \o cells[k].addr)>>
    ELSE <<>>])

checkFormulas(wb) ==
  IF ~HasSheetNames(wb) THEN <<>>
  ELSE Concat([k \in 1..Len(wb.SheetNames) |->
         LET name == wb.SheetNames[k]
         IN  IF ~HasSheet(wb, name) THEN <<>>
             ELSE FormulaResults(name, wb.Sheets[name].cells)])

RECURSIVE SumSeq(_)
SumSeq(ns) == IF ns = <<>> THEN 0 ELSE Head(ns) + SumSeq(Tail(ns))

\* an ExcelJS workbook: a sequence of worksheets [drawings, rules], each the
\* length of the array, or -1 when the property is not an array
checkCharts(xwb) ==
  LET chartCount == SumSeq([k \in 1..Len(xwb) |-> Max(xwb[k].drawings, 0)])
  IN  IF chartCount > 0
      THEN <<Result("success", "Workbook contains " \o ToString(chartCount) \o " chart(s)",
                    Null, Null)>>
      ELSE <<>>

checkMacros(wb) ==
  IF wb.vbaraw
  THEN <<Result("warning", "Workbook contains VBA macros", <<Text.MacroAdvice>>, Null)>>
  ELSE <<>>

MaxNamedRangeLen == 255

\* wb.Names: workbook.Workbook.Names, the empty sequence when it is missing
checkNamedRanges(wb) ==
  IF Len(wb.Names) > 0
  THEN Concat([k \in 1..Len(wb.Names) |->
         IF Len(wb.Names[k]) > MaxNamedRangeLen
         THEN <<Result("error", "Named range name too long",
                       << <<"The", "named", "range">> \o Quoted(wb.Names[k])
                          \o <<"exceeds", "Excel's", "255", "character", "limit",
                               ".">> >>, Null)>>
         ELSE <<>>])
       \o <<Result("success", "Found " \o ToString(Len(wb.Names)) \o " named range(s)",
                   Null, Null)>>
  ELSE <<>>

MaxCfRules == 64000

checkConditionalFormatting(xwb) ==
  LET cfCount == SumSeq([k \in 1..Len(xwb) |-> Max(xwb[k].rules, 0)])
  IN  IF cfCount > 0
      THEN IF cfCount > MaxCfRules
           THEN <<Result("error", "Too many conditional formatting rules",
                         << <<"The", "workbook", "contains", ToString(cfCount),
                              "conditional", "formatting", "rules", ".", "Excel's",
                              "limit", "is", "64,000", ".">> >>, Null)>>
           ELSE <<Result("success",
                         "Found " \o ToString(cfCount) \o " conditional formatting rule(s)",
                         Null, Null)>>
      ELSE <<>>

\* lines 383-390: the limit checks in their order
NumChecks == 8

LimitCheck(k, f, wb, xwb) ==
  CASE k = 1 -> checkFileFormat(f)
    [] k = 2 -> checkWorkbookStructure(wb)
    [] k = 3 -> checkCellFormats(wb)
    [] k = 4 -> checkFormulas(wb)
    [] k = 5 -> checkCharts(xwb)
    [] k = 6 -> checkMacros(wb)
    [] k = 7 -> checkNamedRanges(wb)
    [] k = 8 -> checkConditionalFormatting(xwb)

\* a plausible alternative: the checks are bypassed when no sheet was parsed
LimitChecks_onlyForParsedSheets(n, f, wb, xwb) ==
  IF Len(wb.SheetNames) = 0 THEN <<>>
  ELSE Concat([k \in 1..n |-> LimitCheck(k, f, wb, xwb)])

\* the entries pushed by the first n limit checks
LimitChecks(n, f, wb, xwb) == Concat([k \in 1..n |-> LimitCheck(k, f, wb, xwb)])

\* ------------------------------------------------------------------------
\* checkExcelCompatibility: report assembly (excelChecker.ts 279-421)
\* ------------------------------------------------------------------------

\* lines 294-297: 'Recovered Metadata:' and one "key: value" line per entry
MetadataLines(metadata) ==
  IF Len(metadata) > 0
  THEN <<Text.RecoveredMetadata>>
       \o [k \in 1..Len(metadata) |-> <<metadata[k].key, ":">> \o metadata[k].value]
  ELSE <<>>

\* lines 293-304: the entry pushed when some metadata was recovered
MetadataResults(metadata) ==
  IF Len(metadata) > 0
  THEN <<Result("success", "Successfully extracted some file metadata",
                MetadataLines(metadata), Null)>>
  ELSE <<>>

\* errorMsg.includes('ZIP') || errorMsg.includes('NaN') || errorMsg.includes('compression')
ZipGate(msg) ==
  \/ Includes(msg, Keyword.ZIP)
  \/ Includes(msg, Keyword.NaN)
  \/ Includes(msg, Keyword.compression)

\* lines 336-340 and 366-370: the message of the error thrown with the diagnosis
DiagnosisError(diagLines, mdText) ==
  <<Text.ZipThrow, Line.Blank, Text.DetailedDiagnostics>>
  \o diagLines
  \o (IF Len(mdText) > 0
      THEN <<Line.Blank, Text.RecoveredMetadataHeading>> \o mdText
      ELSE <<>>)

\* lines 343-348 and 374-379: a parser failure recorded with its raw message
ParserFailure(parser, msg) ==
  Result("error", "Failed to parse Excel file with " \o parser, <<msg>>, Null)

\* workbook = { SheetNames: [], Sheets: {} }
EmptyWorkbook ==
  [namesIsArray |-> TRUE, SheetNames |-> <<>>, Sheets |-> <<>>, vbaraw |-> FALSE,
   Names |-> <<>>]

\* new ExcelJS.Workbook()
EmptyExcelJsWorkbook == <<>>

IsSuccess(r) == r.status = "success"
IsError(r) == r.status = "error"

\* line 393
TotalIssues(res) == Len(res) - CountSeq(res, IsSuccess)

\* a plausible slip: compatible only when there is no issue at all
IsCompatible_noIssues(res) == CountSeq(res, IsSuccess) = Len(res)

\* line 394
IsCompatible(res) == CountSeq(res, IsError) = 0

Report(f, res, total, compatible) ==
  [fileName |-> NameText(f.name), fileSize |-> FileSize(f),
   lastModified |-> f.lastModified, results |-> res,
   totalIssues |-> total, isCompatible |-> compatible]

\* lines 392-403: the report of the normal path
NormalReport(f, res) == Report(f, res, TotalIssues(res), IsCompatible(res))

\* a plausible slip: the handler returns the summary of what was collected
\* without recording the failure
CatchReport_failureNotRecorded(f, res, message) == NormalReport(f, res)

\* lines 404-420: the report of the top-level handler for an error with the
\* given message
CatchReport(f, res, message) ==
  LET all == Append(res, Result("error", "Failed to process Excel file", message, Null))
  IN  Report(f, all, Len(all), FALSE)

\* ------------------------------------------------------------------------
\* State
\* ------------------------------------------------------------------------

VARIABLES
  file,             \* the File handed to the analysis
  caller,           \* who started it: "uploader" (processFile) or "direct"
  pc,               \* where the analysis stands (its pending await)
  results,          \* checkExcelCompatibility: results
  metadata,         \* checkExcelCompatibility: metadata (entries in insertion order)
  metadataText,     \* checkExcelCompatibility: metadataText (lines)
  workbook,         \* checkExcelCompatibility: workbook (SheetJS)
  excelJsWorkbook,  \* checkExcelCompatibility: excelJsWorkbook
  sheetJs,          \* what XLSX.read did: Null, "ok" or its error message
  excelJs,          \* what ExcelJS load did: Null, "ok" or its error message
  errorMsg,         \* analyzeCorruptedExcel: errorMsg
  findings,         \* analyzeCorruptedExcel: deepAnalysisResults
  diag,             \* analyzeCorruptedExcel: the diagnosis built
  caught,           \* message of the error the top-level handler caught
  report,           \* the CompatibilityReport the promise resolved to
  outcome,          \* the promise: "pending", "resolved" or "rejected"
  reads,            \* number of reads of the file's bytes so far
  readsAtReject,    \* reads made when the format check rejected the file, or -1
  uploadError,      \* FileUploader: error
  appReport,        \* App: report
  appFile,          \* App: originalFile
  rfile,            \* FileRecoveryPreview: the file prop
  showPreview,      \* FileRecoveryPreview: showPreview
  isLoading,        \* FileRecoveryPreview: isLoading
  recoveredContent, \* FileRecoveryPreview: recoveredContent
  recoveryError,    \* the error the handler of lines 55-56 logged last, or Null
  inflight,         \* recoveries started and not yet settled
  started,          \* number of recoveries started
  zipDoc,           \* the worksheets the recovered buffer was written from
  fullText,         \* extractTextFromZip: fullText
  tables,           \* extractTextFromZip: tables after the first attempt
  jobs              \* the processFile calls made, in order, each with its position

checkVars ==
  <<file, caller, pc, results, metadataText, metadata, workbook, excelJsWorkbook, sheetJs,
    excelJs, errorMsg, findings, diag, caught, report, outcome, reads,
    readsAtReject, uploadError, appReport, appFile>>

previewVars ==
  <<rfile, showPreview, isLoading, recoveredContent, recoveryError, inflight, started>>

zipVars == <<zipDoc, fullText, tables>>

uploadVars == <<jobs>>

vars == <<checkVars, previewVars, zipVars, uploadVars>>

\* the state of an analysis before it starts, but for file, pc and errorMsg
CheckFresh ==
  /\ caller = Null /\ results = <<>> /\ metadataText = <<>> /\ metadata = <<>>
  /\ workbook = None /\ excelJsWorkbook = Null /\ sheetJs = Null /\ excelJs = Null
  /\ findings = Null /\ diag = None /\ caught = Null
  /\ report = None /\ outcome = "pending"
  /\ reads = 0 /\ readsAtReject = -1 /\ uploadError = Null
  /\ appReport = None /\ appFile = None

\* the parts of the state a specification does not use
CheckIdle == file = None /\ pc = "idle" /\ errorMsg = Null /\ CheckFresh

PreviewIdle ==
  /\ rfile = None /\ showPreview = FALSE /\ isLoading = FALSE
  /\ recoveredContent = None /\ recoveryError = Null /\ inflight = {} /\ started = 0

ZipIdle == zipDoc = <<>> /\ fullText = <<>> /\ tables = <<>>

UploadIdle == jobs = <<>>

\* ------------------------------------------------------------------------
\* Inputs: buffers, files, parser error messages
\* ------------------------------------------------------------------------

Sig_Zip == <<80, 75, 3, 4>>
Sig_Xls4 == <<208, 207, 17, 224>>
Sig_Xls8 == <<208, 207, 17, 224, 161, 177, 26, 225>>
Sig_Eocd == <<80, 75, 5, 6>>

Signatures ==
  { <<>>, <<80, 75, 3>>, Sig_Zip, Sig_Xls4, Sig_Xls8, Sig_Xls8 \o <<0>>,
    <<37, 80, 68, 70>>, <<255, 216, 255>>, <<137, 80, 78, 71>>, <<1, 2, 3, 4>>,
    <<37>>, <<37, 80, 68>>, <<137, 80, 78>>, <<208, 207, 17>>, <<80, 75>> }

AllComponents ==
  Lit.ContentTypes \o Lit.WorkbookXml \o Lit.Sheet \o Lit.StylesXml \o Lit.SharedStrings

ZipContents == { <<>>, AllComponents, Lit.WorkbookXml, Lit.EncryptionInfo }

ZipTails ==
  { <<>>, Sig_Eocd \o Repeat(<<0>>, 18), Sig_Eocd \o <<0, 0, 0>>, <<80>>,
    Lit.EncryptedPackage }

\* short buffers, one per signature, bare or followed by a few zero bytes
SignatureBuffers ==
  { <<Part(sig, 1), Part(<<0>>, pad)>> : sig \in Signatures, pad \in {0, 4} }

\* ZIP-signed buffers: content, zero filler, tail
ZipBuffers ==
  { <<Part(Sig_Zip, 1), Part(c, 1), Part(<<0>>, pad), Part(t, 1)>> :
      c \in ZipContents, pad \in {30, 150, 600, 2100}, t \in ZipTails }

\* legacy binary buffers
XlsBuffers ==
  { <<Part(Sig_Xls8, 1), Part(c, 1), Part(<<0>>, pad), Part(t, 1)>> :
      c \in {<<>>, Lit.encryption}, pad \in {150, 600}, t \in {<<>>, Lit.EncryptedPackage} }

DiagBuffers == SignatureBuffers \cup ZipBuffers \cup XlsBuffers

FileNames == { [stem |-> "book", ext |-> "xlsx"], [stem |-> "book", ext |-> "xls"] }

DiagFiles ==
  { [name |-> n, lastModified |-> 1700000000, buf |-> b] :
      n \in FileNames, b \in DiagBuffers }

\* messages a parser may fail with
ErrorMsgs ==
  { Pattern.UnsupportedCompression,
    Pattern.LocalFileHeader,
    Pattern.EndOfCentralDir,
    Pattern.HeaderCheck,
    <<"Bad", "ZIP", "archive", ":">> \o Pattern.EndOfCentralDir,
    <<"Invalid", "compression", "stream", ":">> \o Pattern.HeaderCheck,
    Pattern.UnsupportedCompression \o <<";">> \o Pattern.EndOfCentralDir,
    <<"ZIP", ":">> \o Pattern.HeaderCheck \o <<";">> \o Pattern.LocalFileHeader,
    <<"Bad", "ZIP", "archive">>,
    <<"Value", "is", "NaN">>,
    <<"Cannot", "read", "properties", "of", "undefined">> }

\* ------------------------------------------------------------------------
\* The Corruption Classifier on its own: analyzeCorruptedExcel(file, msg)
\* ------------------------------------------------------------------------

InitDiag ==
  /\ file \in DiagFiles
  /\ errorMsg \in ErrorMsgs
  /\ pc = "analyze"
  /\ CheckFresh /\ PreviewIdle /\ ZipIdle /\ UploadIdle

\* performDeepExcelAnalysis read the file: findings, further remediation, report
AnalyzeRead ==
  /\ pc = "analyze"
  /\ pc' = "analyzed"
  /\ reads' = reads + 1
  /\ findings' = performDeepExcelAnalysis(file)
  /\ diag' = analyzeCorruptedExcel(file, errorMsg, TRUE)
  /\ UNCHANGED <<file, caller, results, metadataText, metadata, workbook, excelJsWorkbook,
                 sheetJs, excelJs, errorMsg, caught, report, outcome, readsAtReject,
                 uploadError, appReport, appFile>>
  /\ UNCHANGED <<previewVars, zipVars, uploadVars>>

\* file.arrayBuffer() rejected inside performDeepExcelAnalysis (line 186)
AnalyzeReadFails ==
  /\ pc = "analyze"
  /\ pc' = "analyzed"
  /\ diag' = analyzeCorruptedExcel(file, errorMsg, FALSE)
  /\ UNCHANGED <<file, caller, results, metadataText, metadata, workbook, excelJsWorkbook,
                 sheetJs, excelJs, errorMsg, findings, caught, report, outcome, reads,
                 readsAtReject, uploadError, appReport, appFile>>
  /\ UNCHANGED <<previewVars, zipVars, uploadVars>>

NextDiag == AnalyzeRead \/ AnalyzeReadFails

SpecDiag == InitDiag /\ [][NextDiag]_vars

\* ------------------------------------------------------------------------
\* Properties of the Corruption Classifier and the Structural Prober
\* (checked under SpecDiag)
\* ------------------------------------------------------------------------

MatchesKnownPattern(msg) ==
  \/ Includes(msg, Pattern.UnsupportedCompression)
  \/ Includes(msg, Pattern.LocalFileHeader)
  \/ Includes(msg, Pattern.EndOfCentralDir)
  \/ Includes(msg, Pattern.HeaderCheck)

\* the issue and remediation lines of the categories other than the first
OtherCategoryLines ==
  Range(CatLocalHeader.issues) \cup Range(CatLocalHeader.recommendations)
  \cup Range(CatEndOfDir.issues) \cup Range(CatEndOfDir.recommendations)
  \cup Range(CatHeaderCheck.issues) \cup Range(CatHeaderCheck.recommendations)

\* C6 (as claimed): when the error text matches none of the four patterns,
\* the diagnosis holds the generic "Unable to determine the exact corruption
\* issue." entry and a line carrying the raw error text verbatim.
C6_UnknownCarriesRawError ==
  (pc = "analyzed" /\ ~MatchesKnownPattern(errorMsg))
    => /\ Issue.Unknown1 \in Range(diag.issues)
       /\ (Line.RawErrorPrefix \o errorMsg) \in Range(diag.issues)

\* C7: for error text containing "Unsupported ZIP Compression method NaN" the
\* issue section is the two unsupported-compression lines followed by all the
\* findings for the buffer, both fixed remediation lines of the category are
\* present, and no issue or remediation line of the other three categories is.
C7_UnsupportedCompressionDiagnosis ==
  (pc = "analyzed" /\ Includes(errorMsg, Pattern.UnsupportedCompression))
    => /\ SubSeq(diag.issues, 1, 2) = <<Issue.Unsupported1, Issue.Unsupported2>>
       /\ findings # Null => diag.issues = <<Issue.Unsupported1, Issue.Unsupported2>> \o findings
       /\ {Advice.Unsupported1, Advice.Unsupported2} \subseteq Range(diag.recommendations)
       /\ Range(diag.issues) \cap OtherCategoryLines = {}
       /\ Range(diag.recommendations) \cap OtherCategoryLines = {}

\* C7 witness: an error text with the first pattern and a later one, analysed
\* for a ZIP-signed buffer with several findings
C7_Witness ==
  /\ pc = "analyzed"
  /\ Includes(errorMsg, Pattern.UnsupportedCompression)
  /\ Includes(errorMsg, Pattern.EndOfCentralDir)
  /\ findings # Null
  /\ Len(findings) >= 3
  /\ Len(diag.issues) = 2 + Len(findings)

StartsWithXlsMagic(bytes) == Len(bytes) >= 4 /\ SubSeq(bytes, 1, 4) = Sig_Xls4

ClassifiedLegacyBinary ==
  /\ Line.XlsSignature \in Range(findings)
  /\ Line.NoSignature \notin Range(findings)

\* C10 (as claimed): every buffer of length >= 4 whose first four bytes are
\* D0 CF 11 E0 is classified as the legacy binary container.
C10_AnyLengthFromFour ==
  (pc = "analyzed" /\ findings # Null /\ StartsWithXlsMagic(Bytes(file.buf)))
    => ClassifiedLegacyBinary

\* C10 (amended): every buffer of length >= 8 whose first four bytes are
\* D0 CF 11 E0 is classified as the legacy binary container: the findings hold
\* the valid-binary-XLS signature line and not the no-valid-signature line.
C10_LegacyBinaryFromEightBytes ==
  (pc = "analyzed" /\ findings # Null /\ StartsWithXlsMagic(Bytes(file.buf))
     /\ BufLen(file.buf) >= 8)
    => ClassifiedLegacyBinary

\* C10 witness: a buffer of exactly eight bytes starting D0 CF 11 E0 was probed
C10_Witness ==
  /\ pc = "analyzed" /\ findings # Null
  /\ BufLen(file.buf) = 8
  /\ StartsWithXlsMagic(Bytes(file.buf))
  /\ ClassifiedLegacyBinary

\* the lines naming a foreign format
ForeignKindLines == {Line.Pdf, Line.Jpeg, Line.Png}

\* the detailed analysis raised no exception: no line reports one
NoAnalysisError ==
  \A k \in 1..Len(diag.issues) :
     SubSeq(diag.issues[k], 1, Len(Line.AnalysisErrorPrefix)) # Line.AnalysisErrorPrefix

\* C11: for every buffer of length 0 to 3 the signature check completes
\* without an exception, reports that the file has no valid Excel signature
\* (neither signature line is given) and names no foreign format (PDF, JPEG
\* or PNG).
C11_ShortBufferUnrecognized ==
  (pc = "analyzed" /\ findings # Null /\ BufLen(file.buf) <= 3)
    => /\ NoAnalysisError
       /\ Line.NoSignature \in Range(findings)
       /\ Line.XlsxSignature \notin Range(findings)
       /\ Line.XlsSignature \notin Range(findings)
       /\ Range(findings) \cap ForeignKindLines = {}

\* C11 witness: the three bytes FF D8 FF, a whole JPEG signature, were probed
C11_Witness ==
  /\ pc = "analyzed" /\ findings # Null
  /\ Bytes(file.buf) = <<255, 216, 255>>
  /\ findings = <<Line.NoSignature>>

\* bytes.includes of the four-byte End of Central Directory signature
ContainsEocdSignature(bytes) == Includes(bytes, Sig_Eocd)

CentralDirReportedMissing ==
  \E k \in 1..(Len(findings) - 1) :
     findings[k] = Line.NoCentralDir /\ findings[k + 1] = Line.NotClosed

\* C12: every buffer that begins with 50 4B 03 04 and holds 50 4B 05 06 at no
\* offset, buffers shorter than 22 bytes included, gets the finding 'ZIP
\* Central Directory is missing or corrupt.' followed by the line inferring a
\* truncated or not properly closed file.
C12_NoEocdReportsMissingDirectory ==
  (pc = "analyzed" /\ findings # Null
     /\ hasValidXlsxSignature(Bytes(file.buf))
     /\ ~ContainsEocdSignature(Bytes(file.buf)))
    => CentralDirReportedMissing

\* C12 witness: a ZIP-signed buffer longer than an end record, with content
\* and no end-of-directory signature anywhere, was probed
C12_Witness ==
  /\ pc = "analyzed" /\ findings # Null
  /\ hasValidXlsxSignature(Bytes(file.buf))
  /\ BufLen(file.buf) > EocdRecordLen
  /\ Includes(Bytes(file.buf), Lit.WorkbookXml)
  /\ ~ContainsEocdSignature(Bytes(file.buf))
  /\ CentralDirReportedMissing

\* the last n bytes of a buffer of at least n bytes
LastBytes(bytes, n) == SubSeq(bytes, Len(bytes) - n + 1, Len(bytes))

\* a ZIP-signed buffer of at least 100 bytes without the byte 50 among its
\* last 100
ZipWithoutPInTail(bytes) ==
  /\ hasValidXlsxSignature(bytes)
  /\ Len(bytes) >= TailWindow
  /\ 80 \notin Range(LastBytes(bytes, TailWindow))

\* C25 (as claimed): every buffer that begins with 50 4B 03 04 and has no
\* byte 50 among its last 100 bytes gets the finding 'File appears to be
\* truncated (premature end of file).', whatever its size.
C25_TruncatedAtAnySize ==
  (pc = "analyzed" /\ findings # Null /\ ZipWithoutPInTail(Bytes(file.buf)))
    => Line.Truncated \in Range(findings)

\* C25 (amended): a buffer gets the finding 'File appears to be truncated
\* (premature end of file).' exactly when it begins with 50 4B 03 04, has no
\* byte 50 among its last 100 bytes and its size is above 100 and below 2000
\* bytes; the finding then follows the suspiciously-small finding.
C25_TruncatedOnlyWhenSmall ==
  (pc = "analyzed" /\ findings # Null)
    => /\ Line.Truncated \in Range(findings)
            <=> /\ ZipWithoutPInTail(Bytes(file.buf))
                /\ BufLen(file.buf) > 100 /\ BufLen(file.buf) < 2000
       /\ \A k \in 1..Len(findings) :
            findings[k] = Line.Truncated => (k > 1 /\ findings[k - 1] = Line.SmallFile)

\* C25 witness: a ZIP-signed buffer of more than 600 bytes with content and
\* a tail of zero bytes was found truncated
C25_Witness ==
  /\ pc = "analyzed" /\ findings # Null
  /\ ZipWithoutPInTail(Bytes(file.buf))
  /\ BufLen(file.buf) > 600 /\ BufLen(file.buf) < 2000
  /\ Includes(Bytes(file.buf), Lit.WorkbookXml)
  /\ Line.Truncated \in Range(findings)

\* one of the four encryption markers stands within the first n bytes
MarkerWithin(bytes, n) ==
  \E marker \in {Lit.EncryptedPackage, Lit.encryption, Lit.EncryptionInfo,
                 Lit.StrongEncryptionDataSpace} :
     Includes(SubSeq(bytes, 1, Min(n, Len(bytes))), marker)

PasswordReported ==
  \E k \in 1..(Len(findings) - 1) :
     findings[k] = Line.Encrypted /\ findings[k + 1] = Line.NeedPassword

\* C26 (as claimed): every buffer whose first 2000 bytes contain one of the
\* four encryption markers gets the password-protected finding and the
\* cannot-be-analyzed-without-password note, whatever its total length.
C26_MarkerAtAnyLength ==
  (pc = "analyzed" /\ findings # Null /\ MarkerWithin(Bytes(file.buf), 2000))
    => PasswordReported

\* C26 (amended): a buffer gets the password-protected finding, followed by
\* the cannot-be-analyzed-without-password note, exactly when it is longer
\* than 500 bytes and its first 2000 bytes contain one of the four markers.
C26_MarkerInLongerThan500 ==
  (pc = "analyzed" /\ findings # Null)
    => /\ PasswordReported
            <=> (BufLen(file.buf) > 500 /\ MarkerWithin(Bytes(file.buf), 2000))
       /\ Line.Encrypted \in Range(findings) => PasswordReported

\* C26 witness: a buffer longer than 2000 bytes with a marker near its start
\* was reported as password protected
C26_Witness ==
  /\ pc = "analyzed" /\ findings # Null
  /\ BufLen(file.buf) > 2000
  /\ MarkerWithin(Bytes(file.buf), 100)
  /\ PasswordReported

\* C27 (as claimed): the finding 'ZIP Central Directory is missing or
\* corrupt.' is recorded only when 50 4B 05 06 is absent from the whole
\* buffer; a ZIP-signed buffer that holds the signature at any offset, its
\* final 21 bytes included, does not get the finding.
C27_MissingOnlyWhenAbsentAnywhere ==
  (pc = "analyzed" /\ findings # Null /\ hasValidXlsxSignature(Bytes(file.buf)))
    => (CentralDirReportedMissing => ~ContainsEocdSignature(Bytes(file.buf)))

\* the signature begins at least 22 bytes before the end of the buffer
EocdSignatureBeforeTail(bytes) ==
  Len(bytes) >= 22 /\ Includes(SubSeq(bytes, 1, Len(bytes) - 18), Sig_Eocd)

\* C27 (amended): a ZIP-signed buffer gets the finding 'ZIP Central Directory
\* is missing or corrupt.' exactly when 50 4B 05 06 begins at no offset that
\* leaves 22 bytes to the end of the buffer; a signature that begins within
\* the final 21 bytes does not count.
C27_MissingUnlessSignatureBeforeTail ==
  (pc = "analyzed" /\ findings # Null /\ hasValidXlsxSignature(Bytes(file.buf)))
    => (CentralDirReportedMissing <=> ~EocdSignatureBeforeTail(Bytes(file.buf)))

\* C27 witness: a ZIP-signed buffer whose only signature 50 4B 05 06 begins
\* seven bytes before its end got the finding
C27_Witness ==
  /\ pc = "analyzed" /\ findings # Null
  /\ hasValidXlsxSignature(Bytes(file.buf))
  /\ BufLen(file.buf) > 22
  /\ LastBytes(Bytes(file.buf), 7) = Sig_Eocd \o <<0, 0, 0>>
  /\ ~EocdSignatureBeforeTail(Bytes(file.buf))
  /\ CentralDirReportedMissing

\* the four patterns in the order of the classifier, each with its pair
Categories ==
  << [pattern |-> Pattern.UnsupportedCompression, pair |-> CatUnsupported],
     [pattern |-> Pattern.LocalFileHeader, pair |-> CatLocalHeader],
     [pattern |-> Pattern.EndOfCentralDir, pair |-> CatEndOfDir],
     [pattern |-> Pattern.HeaderCheck, pair |-> CatHeaderCheck] >>

\* the categories whose pattern the error text contains
Matching(msg) == {k \in 1..Len(Categories) : Includes(msg, Categories[k].pattern)}

\* C29: for error text containing two or more of the four patterns, the
\* diagnosis opens with the issue lines and the remediation lines of the
\* earliest of them in the classifier's order, and holds no issue or
\* remediation line of any other pattern the text contains.
C29_FirstMatchWins ==
  (pc = "analyzed" /\ Cardinality(Matching(errorMsg)) >= 2)
    => \A k \in Matching(errorMsg) :
         IF k = MinSet(Matching(errorMsg))
         THEN /\ SubSeq(diag.issues, 1, Len(Categories[k].pair.issues))
                   = Categories[k].pair.issues
              /\ SubSeq(diag.recommendations, 1, Len(Categories[k].pair.recommendations))
                   = Categories[k].pair.recommendations
         ELSE /\ Range(diag.issues) \cap Range(Categories[k].pair.issues) = {}
              /\ Range(diag.recommendations) \cap Range(Categories[k].pair.recommendations) = {}

\* C29 witness: an error text in which 'incorrect header check' stands before
\* 'Local File Header signature not found' was classified as the latter,
\* the earlier of the two in the classifier's order
C29_Witness ==
  /\ pc = "analyzed"
  /\ Matching(errorMsg) = {2, 4}
  /\ errorMsg = <<"ZIP", ":">> \o Pattern.HeaderCheck \o <<";">> \o Pattern.LocalFileHeader
  /\ SubSeq(diag.issues, 1, 2) = CatLocalHeader.issues
  /\ Len(diag.issues) > 2

\* ------------------------------------------------------------------------
\* Inputs of the analysis pipeline: files, parsed workbooks, parser errors
\* ------------------------------------------------------------------------

\* dc:creator>Bob</dc:creator
CreatorMarkup == Markup.CreatorOpen \o <<66, 111, 98>> \o Markup.CreatorClose

\* <sheet name="Q1"
SheetMarkup == Markup.SheetNameOpen \o <<81, 49>> \o Markup.Quote

\* dc:creator></dc:creator<sheet name=""
EmptyFieldsMarkup ==
  Markup.CreatorOpen \o Markup.CreatorClose \o Markup.SheetNameOpen \o Markup.Quote

PipelineBuffers ==
  { <<Part(CreatorMarkup, 1)>>,
    <<Part(<<0>>, MinFileSize - 1)>>,
    <<Part(<<0>>, MinFileSize)>>,
    <<Part(Sig_Zip, 1), Part(AllComponents \o CreatorMarkup \o SheetMarkup, 1),
      Part(<<0>>, 150), Part(Sig_Eocd \o Repeat(<<0>>, 18), 1)>>,
    <<Part(Sig_Zip, 1), Part(<<0>>, 150)>>,
    <<Part(Sig_Xls8, 1), Part(<<0>>, 150)>>,
    <<Part(Sig_Zip, 1), Part(EmptyFieldsMarkup, 1), Part(<<0>>, 150)>> }

PipelineNames ==
  { [stem |-> "book", ext |-> "xlsx"], [stem |-> "BOOK", ext |-> "XLSX"],
    [stem |-> "book", ext |-> "xls"], [stem |-> "notes", ext |-> "txt"],
    [stem |-> "README", ext |-> ""] }

PipelineFiles ==
  { [name |-> n, lastModified |-> 1700000000, buf |-> b] :
      n \in PipelineNames, b \in PipelineBuffers }

Name_Data == <<"D", "a", "t", "a">>
Name_31 == Repeat(<<"a">>, MaxSheetNameLen)
Name_32 == Repeat(<<"b">>, MaxSheetNameLen + 1)
Name_Slash == <<"Q", "1", "/", "Q", "2">>

Worksheet(ref, cells) == [ref |-> ref, cells |-> cells]
Cell(addr, f) == [addr |-> addr, f |-> f]
LastCell(r, c) == [r |-> r, c |-> c]

\* every value within its limit
WbPlain ==
  [namesIsArray |-> TRUE,
   SheetNames |-> <<Name_Data, Name_31>>,
   Sheets |-> (Name_Data :> Worksheet(LastCell(9, 3),
                               <<Cell(<<"A", "1">>, 0), Cell(<<"B", "2">>, MaxFormulaLen)>>)
               @@ Name_31 :> Worksheet(None, <<>>)),
   vbaraw |-> FALSE, Names |-> <<>>]

\* at the limits, with a macro payload and a named range
WbMacros ==
  [namesIsArray |-> TRUE,
   SheetNames |-> <<Name_Data>>,
   Sheets |-> (Name_Data :> Worksheet(LastCell(MaxRowIndex, MaxColIndex), <<>>)),
   vbaraw |-> TRUE, Names |-> <<Repeat(<<"n">>, MaxNamedRangeLen)>>]

\* beyond the limits
WbOverLimits ==
  [namesIsArray |-> TRUE,
   SheetNames |-> <<Name_32, Name_Slash, Name_Data, Name_31>>,
   Sheets |-> (Name_32 :> Worksheet(LastCell(MaxRowIndex + 1, MaxColIndex + 1),
                             <<Cell(<<"C", "7">>, MaxFormulaLen + 1)>>)
               @@ Name_Slash :> Worksheet(BadRef, <<>>)),
   vbaraw |-> TRUE,
   Names |-> <<Repeat(<<"n">>, MaxNamedRangeLen + 1), <<"T", "o", "t", "a", "l">>>>]

WbManySheets ==
  [namesIsArray |-> TRUE,
   SheetNames |-> [k \in 1..(MaxSheets + 1) |->
                    <<"S", ToString(k \div 100), ToString((k \div 10) % 10),
                       ToString(k % 10)>>],
   Sheets |-> <<>>, vbaraw |-> FALSE, Names |-> <<>>]

\* a parsed model without the SheetNames property
WbNoSheetNames ==
  [namesIsArray |-> FALSE, SheetNames |-> <<>>, Sheets |-> <<>>, vbaraw |-> FALSE,
   Names |-> <<>>]

Workbooks == {WbPlain, WbMacros, WbOverLimits, WbManySheets, WbNoSheetNames, EmptyWorkbook}

XSheet(drawings, rules) == [drawings |-> drawings, rules |-> rules]

ExcelJsWorkbooks ==
  { EmptyExcelJsWorkbook,
    <<XSheet(2, 3), XSheet(-1, -1)>>,
    <<XSheet(1, MaxCfRules)>>,
    <<XSheet(0, MaxCfRules), XSheet(0, 1)>> }

\* the message of a TypeError raised by the runtime
RuntimeErrorMsg == <<"Cannot", "read", "properties", "of", "undefined">>

\* messages a parser may fail with
ParserMsgs ==
  { Pattern.UnsupportedCompression,
    Pattern.LocalFileHeader,
    Pattern.EndOfCentralDir,
    Pattern.HeaderCheck,
    <<"Bad", "ZIP", "archive", ":">> \o Pattern.EndOfCentralDir,
    RuntimeErrorMsg }

\* ------------------------------------------------------------------------
\* The analysis pipeline: FileUploader.processFile and checkExcelCompatibility
\* ------------------------------------------------------------------------

Init == CheckIdle /\ PreviewIdle /\ ZipIdle /\ UploadIdle

UploaderMinSize == 128

UploadMsg ==
  [ NotExcel |-> "Please upload a valid Excel file (.xlsx, .xls, .xlsm, or .xlsb)",
    CorruptedOrEmpty |-> "This Excel file appears to be corrupted or empty." ]

\* a plausible slip: the size of an .xlsx file is not looked at
UploaderPreCheck_extensionOnly(f) ==
  IF ~HasExcelExtension(f.name) THEN UploadMsg.NotExcel ELSE Null

\* FileUploader.tsx 51-58: the error the pre-checks throw for a file, or Null
UploaderPreCheck(f) ==
  IF ~HasExcelExtension(f.name) THEN UploadMsg.NotExcel
  ELSE IF EndsWithXlsx(f.name) /\ FileSize(f) < UploaderMinSize
  THEN UploadMsg.CorruptedOrEmpty
  ELSE Null

\* the promise resolves; processFile's continuation hands the report to App
\* (FileUploader.tsx 62-63, App.tsx 11-14)
Resolve(rep) ==
  /\ report' = rep
  /\ outcome' = "resolved"
  /\ pc' = "done"
  /\ IF caller = "uploader"
     THEN appReport' = rep /\ appFile' = file
     ELSE UNCHANGED <<appReport, appFile>>

\* an error with the given message reaches the handler of lines 404-420
Catch(res, message) ==
  /\ caught' = message
  /\ results' = CatchReport(file, res, message).results
  /\ Resolve(CatchReport(file, res, message))

\* a file is dropped on or selected in the uploader (FileUploader.tsx 45-79)
ProcessFile(f) ==
  /\ pc = "idle"
  /\ file' = f
  /\ caller' = "uploader"
  /\ uploadError' = UploaderPreCheck(f)
  /\ pc' = IF UploaderPreCheck(f) = Null THEN "meta" ELSE "refused"
  /\ UNCHANGED <<results, metadataText, metadata, workbook, excelJsWorkbook, sheetJs, excelJs,
                 errorMsg, findings, diag, caught, report, outcome, reads,
                 readsAtReject, appReport, appFile>>
  /\ UNCHANGED <<previewVars, zipVars, uploadVars>>

\* checkExcelCompatibility(f) called by any other caller (lines 279-290)
Call(f) ==
  /\ pc = "idle"
  /\ file' = f
  /\ caller' = "direct"
  /\ pc' = "meta"
  /\ UNCHANGED <<results, metadataText, metadata, workbook, excelJsWorkbook, sheetJs, excelJs,
                 errorMsg, findings, diag, caught, report, outcome, reads,
                 readsAtReject, uploadError, appReport, appFile>>
  /\ UNCHANGED <<previewVars, zipVars, uploadVars>>

\* lines 290-312: the metadata read settled; the recovered metadata is
\* recorded, then the format is validated
MetaSettled(readOk) ==
  LET md == extractBasicMetadata(file, readOk)
      res == results \o MetadataResults(md)
  IN  /\ reads' = IF readOk THEN reads + 1 ELSE reads
      /\ metadata' = md
      /\ metadataText' = MetadataLines(md)
      /\ IF ~isValidExcelFile(file)
         THEN /\ readsAtReject' = reads'
              /\ Catch(res, <<Text.InvalidFormat>>)
         ELSE /\ results' = res
              /\ pc' = "data"
              /\ UNCHANGED <<readsAtReject, caught, report, outcome, appReport, appFile>>
      /\ UNCHANGED <<file, caller, workbook, excelJsWorkbook, sheetJs, excelJs,
                     errorMsg, findings, diag, uploadError>>
      /\ UNCHANGED <<previewVars, zipVars, uploadVars>>

MetaRead == pc = "meta" /\ MetaSettled(TRUE)

\* file.arrayBuffer() rejected inside extractBasicMetadata (lines 269-272)
MetaReadFails == pc = "meta" /\ MetaSettled(FALSE)

\* lines 312-354: the bytes were read and XLSX.read returned a workbook
SheetJsParsed(wb) ==
  /\ pc = "data"
  /\ reads' = reads + 1
  /\ sheetJs' = "ok"
  /\ workbook' = wb
  /\ pc' = "exceljs"
  /\ UNCHANGED <<file, caller, results, metadataText, metadata, excelJsWorkbook, excelJs,
                 errorMsg, findings, diag, caught, report, outcome, readsAtReject,
                 uploadError, appReport, appFile>>
  /\ UNCHANGED <<previewVars, zipVars, uploadVars>>

\* lines 312-354: the bytes were read and XLSX.read threw
SheetJsFailed(msg) ==
  /\ pc = "data"
  /\ reads' = reads + 1
  /\ sheetJs' = msg
  /\ IF ZipGate(msg)
     THEN /\ errorMsg' = msg
          /\ pc' = "diagnose"
          /\ UNCHANGED <<results, workbook>>
     ELSE /\ results' = Append(results, ParserFailure("SheetJS", msg))
          /\ workbook' = EmptyWorkbook
          /\ pc' = "exceljs"
          /\ UNCHANGED errorMsg
  /\ UNCHANGED <<file, caller, metadataText, metadata, excelJsWorkbook, excelJs,
                 findings, diag, caught, report, outcome, readsAtReject,
                 uploadError, appReport, appFile>>
  /\ UNCHANGED <<previewVars, zipVars, uploadVars>>

\* line 312: file.arrayBuffer() rejected
DataReadFails ==
  /\ pc = "data"
  /\ Catch(results, <<ReadErrorMsg>>)
  /\ UNCHANGED <<file, caller, metadataText, metadata, workbook, excelJsWorkbook, sheetJs,
                 excelJs, errorMsg, findings, diag, reads, readsAtReject, uploadError>>
  /\ UNCHANGED <<previewVars, zipVars, uploadVars>>

\* lines 333-340 and 363-370: analyzeCorruptedExcel settled and the error
\* carrying its text is thrown
Diagnosed(readOk) ==
  LET d == analyzeCorruptedExcel(file, errorMsg, readOk)
  IN  /\ reads' = IF readOk THEN reads + 1 ELSE reads
      /\ findings' = IF readOk THEN performDeepExcelAnalysis(file) ELSE findings
      /\ diag' = d
      /\ Catch(results, DiagnosisError(diagnosticsReport(d), metadataText))
      /\ UNCHANGED <<file, caller, metadataText, metadata, workbook, excelJsWorkbook, sheetJs,
                     excelJs, errorMsg, readsAtReject, uploadError>>
      /\ UNCHANGED <<previewVars, zipVars, uploadVars>>

DiagnoseRead == pc = "diagnose" /\ Diagnosed(TRUE)

\* file.arrayBuffer() rejected inside performDeepExcelAnalysis (line 186)
DiagnoseReadFails == pc = "diagnose" /\ Diagnosed(FALSE)

\* lines 382-403: the limit checks run; "completed" of them return, and when
\* that is not all of them the next one throws
RunChecks(res, xwb, completed) ==
  LET all == res \o LimitChecks(completed, file, workbook, xwb)
  IN  IF completed = NumChecks
      THEN /\ results' = all
           /\ Resolve(NormalReport(file, all))
           /\ UNCHANGED caught
      ELSE Catch(all, <<RuntimeErrorMsg>>)

\* lines 351-403: ExcelJS loaded the workbook
ExcelJsLoaded(xwb, completed) ==
  /\ pc = "exceljs"
  /\ excelJs' = "ok"
  /\ excelJsWorkbook' = xwb
  /\ RunChecks(results, xwb, completed)
  /\ UNCHANGED <<file, caller, metadataText, metadata, workbook, sheetJs, errorMsg, findings,
                 diag, reads, readsAtReject, uploadError>>
  /\ UNCHANGED <<previewVars, zipVars, uploadVars>>

\* lines 355-403: ExcelJS load rejected
ExcelJsFailed(msg, completed) ==
  /\ pc = "exceljs"
  /\ excelJs' = msg
  /\ IF ZipGate(msg) /\ ~HasSheetNames(workbook)
     THEN \* workbook.SheetNames.length of line 361 throws
          /\ Catch(results, <<RuntimeErrorMsg>>)
          /\ UNCHANGED <<excelJsWorkbook, errorMsg>>
     ELSE IF ZipGate(msg) /\ Len(workbook.SheetNames) = 0
     THEN /\ errorMsg' = msg
          /\ pc' = "diagnose"
          /\ UNCHANGED <<excelJsWorkbook, results, caught, report, outcome,
                         appReport, appFile>>
     ELSE /\ excelJsWorkbook' = EmptyExcelJsWorkbook
          /\ RunChecks(Append(results, ParserFailure("ExcelJS", msg)),
                       EmptyExcelJsWorkbook, completed)
          /\ UNCHANGED errorMsg
  /\ UNCHANGED <<file, caller, metadataText, metadata, workbook, sheetJs, findings,
                 diag, reads, readsAtReject, uploadError>>
  /\ UNCHANGED <<previewVars, zipVars, uploadVars>>

Next ==
  \/ \E f \in PipelineFiles : ProcessFile(f)
  \/ \E f \in PipelineFiles : Call(f)
  \/ MetaRead
  \/ MetaReadFails
  \/ \E wb \in Workbooks : SheetJsParsed(wb)
  \/ \E msg \in ParserMsgs : SheetJsFailed(msg)
  \/ DataReadFails
  \/ DiagnoseRead
  \/ DiagnoseReadFails
  \/ \E xwb \in ExcelJsWorkbooks, completed \in 0..NumChecks : ExcelJsLoaded(xwb, completed)
  \/ \E msg \in ParserMsgs, completed \in 0..NumChecks : ExcelJsFailed(msg, completed)

Spec == Init /\ [][Next]_vars

\* ------------------------------------------------------------------------
\* Properties of the analysis pipeline (checked under Spec)
\* ------------------------------------------------------------------------

HasReport == report # None

SomeResult(rep, Test(_)) == \E i \in 1..Len(rep.results) : Test(rep.results[i])

IsWarning(r) == r.status = "warning"

\* C1: the promise of checkExcelCompatibility never rejects and, once the
\* analysis is over, has resolved to a report; whenever an error reached the
\* top-level handler the report holds an error-status result and isCompatible
\* is false.
C1_ResolvesAndRecordsFailure ==
  /\ outcome # "rejected"
  /\ pc = "done" => (outcome = "resolved" /\ HasReport)
  /\ caught # Null => /\ pc = "done"
                      /\ HasReport
                      /\ SomeResult(report, IsError)
                      /\ report.isCompatible = FALSE

\* C1 witness: both parsers succeeded, a limit check threw, and the results
\* collected before the failure held no error (recovered metadata included)
C1_Witness ==
  /\ pc = "done" /\ sheetJs = "ok" /\ excelJs = "ok"
  /\ caught # Null /\ caught = <<RuntimeErrorMsg>>
  /\ Len(metadataText) > 0
  /\ HasReport
  /\ CountSeq(report.results, IsError) = 1
  /\ report.isCompatible = FALSE

\* C2 (as claimed): in every returned report totalIssues is the number of
\* results whose status is not 'success'.
C2_TotalIssuesCountsNonSuccess ==
  HasReport =>
    report.totalIssues = Len(report.results) - CountSeq(report.results, IsSuccess)

\* C3: in every returned report isCompatible is true exactly when no result
\* has status 'error'.
C3_CompatibleIffNoError ==
  HasReport => (report.isCompatible <=> ~SomeResult(report, IsError))

\* C3 witness: a report with a warning and no error, which is compatible
C3_Witness ==
  /\ HasReport
  /\ SomeResult(report, IsWarning)
  /\ ~SomeResult(report, IsError)
  /\ report.isCompatible = TRUE

\* the files the format check does not accept
LacksExtensionOrTooSmall(f) == ~HasExcelExtension(f.name) \/ FileSize(f) < MinFileSize

\* C4 (as claimed): a file whose name lacks an accepted extension or whose
\* size is below 128 bytes has none of its bytes read: no read precedes the
\* format rejection, the metadata salvage's read included.
C4_NoReadBeforeFormatRejection ==
  (file # None /\ LacksExtensionOrTooSmall(file))
    => /\ reads = 0
       /\ readsAtReject \in {-1, 0}

\* a parser failed with this message
ParserFailedWith(x) == x # Null /\ x # "ok"

\* some result of the report carries every issue and remediation line the
\* classifier has for the message's category
CarriesDiagnosisFor(rep, msg) ==
  LET cat == ErrorPatternStage(msg)
  IN  \E i \in 1..Len(rep.results) :
        /\ rep.results[i].details # Null
        /\ Range(cat.issues) \cup Range(cat.recommendations)
             \subseteq Range(rep.results[i].details)

\* C5 (as claimed): when a parser failed with a message containing one of the
\* four known patterns, the returned report carries the classifier's issue
\* and remediation lines for that category.
C5_KnownPatternFailureIsDiagnosed ==
  (pc = "done" /\ HasReport)
    => /\ (ParserFailedWith(sheetJs) /\ MatchesKnownPattern(sheetJs))
            => CarriesDiagnosisFor(report, sheetJs)
       /\ (ParserFailedWith(excelJs) /\ MatchesKnownPattern(excelJs))
            => CarriesDiagnosisFor(report, excelJs)

\* checkWorkbookStructure got past its first test and pushed its count entry
StructureCheckRan ==
  \E i \in 1..Len(results) :
     results[i].message \in {"Worksheet count is within Excel limits", "Too many worksheets"}

NameTooLongReported(name) ==
  \E i \in 1..Len(results) :
     results[i].message = "Sheet name too long" /\ name = results[i].location

\* C15: for every sheet name of a parsed workbook, checkWorkbookStructure
\* emits a 'Sheet name too long' error for that sheet if and only if the
\* name is longer than 31 characters (32 triggers it, 31 does not).
C15_NameTooLongIffOver31 ==
  (pc = "done" /\ StructureCheckRan)
    => \A k \in 1..Len(workbook.SheetNames) :
          NameTooLongReported(workbook.SheetNames[k]) <=> Len(workbook.SheetNames[k]) > 31

\* C15 witness: a workbook with a name of 32 and a name of 31 characters was
\* checked; the first is reported, the second is not
C15_Witness ==
  /\ pc = "done" /\ StructureCheckRan
  /\ \E k \in 1..Len(workbook.SheetNames) :
        Len(workbook.SheetNames[k]) = 32 /\ NameTooLongReported(workbook.SheetNames[k])
  /\ \E k \in 1..Len(workbook.SheetNames) :
        Len(workbook.SheetNames[k]) = 31 /\ ~NameTooLongReported(workbook.SheetNames[k])

\* the messages of the entries checkExcelCompatibility pushes itself (lines
\* 301, 345, 376, 407); every other entry comes from a limit check
OwnMessages ==
  { "Successfully extracted some file metadata",
    "Failed to parse Excel file with SheetJS",
    "Failed to parse Excel file with ExcelJS",
    "Failed to process Excel file" }

IsLimitCheckResult(r) == r.message \notin OwnMessages

BothParsersFailed == ParserFailedWith(sheetJs) /\ ParserFailedWith(excelJs)

\* the message holds one of the markers 'ZIP', 'NaN', 'compression'
HasContainerMarker(msg) ==
  \/ Includes(msg, <<"ZIP">>) \/ Includes(msg, <<"NaN">>) \/ Includes(msg, <<"compression">>)

\* C16 (as claimed): if both parse attempts failed, the returned report
\* contains no limit-check result.
C16_NoLimitCheckWithoutParse ==
  (pc = "done" /\ HasReport /\ BothParsersFailed)
    => ~SomeResult(report, IsLimitCheckResult)

\* C16 (amended): the limit checks are bypassed only when the analysis is
\* aborted.  A report made after the Corruption Classifier ran holds no
\* limit-check result; when both parsers failed and the second message holds
\* a container marker the classifier ran; when both failed and it holds none,
\* the eight limit checks ran on the empty default workbooks and, unless one
\* of them threw, their entries end the report after the two parser-failure
\* entries.
C16_ChecksBypassedOnlyOnAbort ==
  (pc = "done" /\ HasReport)
    => /\ errorMsg # Null => ~SomeResult(report, IsLimitCheckResult)
       /\ (BothParsersFailed /\ HasContainerMarker(excelJs)) => errorMsg # Null
       /\ (BothParsersFailed /\ ~HasContainerMarker(excelJs) /\ caught = Null)
            => LET n == Len(report.results)
                   checks == Concat([k \in 1..8 |->
                               LimitCheck(k, file, EmptyWorkbook, EmptyExcelJsWorkbook)])
               IN  /\ n >= Len(checks) + 2
                   /\ SubSeq(report.results, n - Len(checks) + 1, n) = checks
                   /\ report.results[n - Len(checks) - 1].message
                        = "Failed to parse Excel file with SheetJS"
                   /\ report.results[n - Len(checks)].message
                        = "Failed to parse Excel file with ExcelJS"
                   /\ \E i \in 1..n :
                        report.results[i].message = "Worksheet count is within Excel limits"

\* C16 witness: both parsers failed with messages without a marker and the
\* report holds the worksheet-count entry of the limit checks
C16_Witness ==
  /\ pc = "done" /\ HasReport /\ BothParsersFailed
  /\ ~HasContainerMarker(sheetJs) /\ ~HasContainerMarker(excelJs)
  /\ caught = Null
  /\ \E i \in 1..Len(report.results) :
        report.results[i].message = "Worksheet count is within Excel limits"

\* the keys extractBasicMetadata sets from what it finds
FoundKeys == {"creator", "lastModifiedBy", "creationDate", "application", "sheets", "sheetCount"}

\* C13 (as claimed): no key of the mapping returned by extractBasicMetadata
\* (creator, lastModifiedBy, creationDate, application, sheets, sheetCount)
\* ever holds the empty string.
C13_NoEmptyMetadataValue ==
  \A k \in 1..Len(metadata) :
     metadata[k].key \in FoundKeys => metadata[k].value # <<>>

\* ------------------------------------------------------------------------
\* Several selections: processFile calls that overlap (FileUploader.tsx
\* 24-79, App.tsx 8-14).  Nothing disables the drop area or the file input
\* while an analysis is pending, and each call keeps its own file.
\* ------------------------------------------------------------------------

MaxJobs == 2

UploadFiles ==
  { [name |-> [stem |-> "book", ext |-> "xlsx"], lastModified |-> 1700000000,
     buf |-> <<Part(Sig_Zip, 1), Part(AllComponents \o CreatorMarkup \o SheetMarkup, 1),
               Part(<<0>>, 150), Part(Sig_Eocd \o Repeat(<<0>>, 18), 1)>>],
    [name |-> [stem |-> "BOOK", ext |-> "XLSX"], lastModified |-> 1700000000,
     buf |-> <<Part(Sig_Zip, 1), Part(<<0>>, 150)>>],
    [name |-> [stem |-> "book", ext |-> "xls"], lastModified |-> 1700000000,
     buf |-> <<Part(CreatorMarkup, 1)>>],
    [name |-> [stem |-> "small", ext |-> "xlsx"], lastModified |-> 1700000000,
     buf |-> <<Part(<<0>>, MinFileSize - 1)>>],
    [name |-> [stem |-> "notes", ext |-> "txt"], lastModified |-> 1700000000,
     buf |-> <<Part(CreatorMarkup, 1)>>] }

\* a processFile call: its file, where it stands, and the earlier calls that
\* were pending when it was made
Job(f, at, pending) == [file |-> f, pc |-> at, during |-> pending]

IsPending(j) == j.pc \notin {"refused", "done"}

InitUpload == CheckIdle /\ PreviewIdle /\ ZipIdle /\ UploadIdle

\* FileUploader.tsx 45-61: a file is dropped or selected; the pre-checks run
\* and, when they pass, checkExcelCompatibility is called and awaited
SelectFile(f) ==
  /\ Len(jobs) < MaxJobs
  /\ uploadError' = UploaderPreCheck(f)
  /\ jobs' = Append(jobs, Job(f, IF UploaderPreCheck(f) = Null THEN "meta" ELSE "refused",
                              {k \in 1..Len(jobs) : IsPending(jobs[k])}))
  /\ UNCHANGED <<file, caller, pc, results, metadataText, metadata, workbook,
                 excelJsWorkbook, sheetJs, excelJs, errorMsg, findings, diag, caught,
                 report, outcome, reads, readsAtReject, appReport, appFile>>
  /\ UNCHANGED <<previewVars, zipVars>>

\* FileUploader.tsx 62-63, App.tsx 11-14: the call's promise resolved and its
\* continuation hands the report and the call's own file to App
JobResolves(k, rep) ==
  /\ jobs' = [jobs EXCEPT ![k].pc = "done"]
  /\ appReport' = rep
  /\ appFile' = jobs[k].file

\* excelChecker.ts 290-312: the metadata read of call k settled and the
\* format was validated
JobMetaRead(k) ==
  /\ k \in 1..Len(jobs)
  /\ jobs[k].pc = "meta"
  /\ LET f == jobs[k].file
         md == MetadataResults(extractBasicMetadata(f, TRUE))
     IN  IF ~isValidExcelFile(f)
         THEN JobResolves(k, CatchReport(f, md, <<Text.InvalidFormat>>))
         ELSE /\ jobs' = [jobs EXCEPT ![k].pc = "data"]
              /\ UNCHANGED <<appReport, appFile>>
  /\ UNCHANGED <<file, caller, pc, results, metadataText, metadata, workbook,
                 excelJsWorkbook, sheetJs, excelJs, errorMsg, findings, diag, caught,
                 report, outcome, reads, readsAtReject, uploadError>>
  /\ UNCHANGED <<previewVars, zipVars>>

\* excelChecker.ts 312-403: the bytes of call k were read and both parsers
\* ran; with parsed workbooks the limit checks make the report, with a
\* container failure of SheetJS the diagnosis is awaited
JobParsed(k, wb, xwb) ==
  /\ k \in 1..Len(jobs)
  /\ jobs[k].pc = "data"
  /\ LET f == jobs[k].file
         md == MetadataResults(extractBasicMetadata(f, TRUE))
     IN  JobResolves(k, NormalReport(f, md \o LimitChecks(NumChecks, f, wb, xwb)))
  /\ UNCHANGED <<file, caller, pc, results, metadataText, metadata, workbook,
                 excelJsWorkbook, sheetJs, excelJs, errorMsg, findings, diag, caught,
                 report, outcome, reads, readsAtReject, uploadError>>
  /\ UNCHANGED <<previewVars, zipVars>>

\* excelChecker.ts 328-333: SheetJS failed on the bytes of call k with a
\* container failure
JobSheetJsFailed(k) ==
  /\ k \in 1..Len(jobs)
  /\ jobs[k].pc = "data"
  /\ jobs' = [jobs EXCEPT ![k].pc = "diagnose"]
  /\ UNCHANGED <<checkVars, previewVars, zipVars>>

\* excelChecker.ts 333-340, 404-420: the diagnosis of call k settled
JobDiagnosed(k, msg) ==
  /\ k \in 1..Len(jobs)
  /\ jobs[k].pc = "diagnose"
  /\ LET f == jobs[k].file
         md == extractBasicMetadata(f, TRUE)
         d == analyzeCorruptedExcel(f, msg, TRUE)
     IN  JobResolves(k, CatchReport(f, MetadataResults(md),
                                    DiagnosisError(diagnosticsReport(d), MetadataLines(md))))
  /\ UNCHANGED <<file, caller, pc, results, metadataText, metadata, workbook,
                 excelJsWorkbook, sheetJs, excelJs, errorMsg, findings, diag, caught,
                 report, outcome, reads, readsAtReject, uploadError>>
  /\ UNCHANGED <<previewVars, zipVars>>

NextUpload ==
  \/ \E f \in UploadFiles : SelectFile(f)
  \/ \E k \in 1..MaxJobs : JobMetaRead(k)
  \/ \E k \in 1..MaxJobs : JobParsed(k, WbPlain, EmptyExcelJsWorkbook)
  \/ \E k \in 1..MaxJobs : JobSheetJsFailed(k)
  \/ \E k \in 1..MaxJobs : JobDiagnosed(k, Pattern.UnsupportedCompression)

SpecUpload == InitUpload /\ [][NextUpload]_vars

\* the last call made, when it passed the pre-checks while an earlier call
\* was pending, and every call has completed
LastSelectedOverlapped ==
  /\ Len(jobs) >= 2
  /\ \A k \in 1..Len(jobs) : ~IsPending(jobs[k])
  /\ jobs[Len(jobs)].pc = "done"
  /\ jobs[Len(jobs)].during # {}

\* C19 (as claimed): if a file is selected while the analysis of an earlier
\* file is still in flight, then once the analyses have completed the report
\* and originalFile held by App are those of the most recently selected
\* file, whichever analysis finishes first.
C19_AppHoldsLastSelected ==
  LastSelectedOverlapped
    => /\ appFile = jobs[Len(jobs)].file
       /\ appReport.fileName = NameText(jobs[Len(jobs)].file.name)

\* the message for a file the uploader's own checks reject: a name without
\* an accepted extension, or a name ending in '.xlsx' with fewer than 128
\* bytes; Null for any other file
RejectionMsg(f) ==
  IF ToLowerCase(f.name.ext) \notin {"xlsx", "xls", "xlsm", "xlsb"}
  THEN "Please upload a valid Excel file (.xlsx, .xls, .xlsm, or .xlsb)"
  ELSE IF f.name.ext = "xlsx" /\ BufLen(f.buf) < 128
  THEN "This Excel file appears to be corrupted or empty."
  ELSE Null

\* C30: a file rejected by the uploader's own pre-checks never reaches
\* checkExcelCompatibility, and its selection leaves App's report and
\* originalFile as they were: only the uploader's error message is set, so
\* the report of an earlier file stays displayed.
C30_RejectedFileLeavesAppUnchanged ==
  [][ /\ \A k \in 1..Len(jobs') :
           RejectionMsg(jobs'[k].file) # Null => jobs'[k].pc = "refused"
      /\ (Len(jobs') = Len(jobs) + 1 /\ RejectionMsg(jobs'[Len(jobs')].file) # Null)
           => /\ appReport' = appReport
              /\ appFile' = appFile
              /\ uploadError' = RejectionMsg(jobs'[Len(jobs')].file) ]_vars

\* C30 witness: after the report of a first file was displayed, a short
\* .xlsx file was rejected, and App still holds the report and the file of
\* the first
C30_Witness ==
  /\ Len(jobs) = 2
  /\ jobs[1].pc = "done" /\ jobs[2].pc = "refused"
  /\ jobs[2].during = {}
  /\ EndsWithXlsx(jobs[2].file.name) /\ FileSize(jobs[2].file) < UploaderMinSize
  /\ uploadError = UploadMsg.CorruptedOrEmpty
  /\ appFile = jobs[1].file
  /\ appReport # None
  /\ appReport.fileName = NameText(jobs[1].file.name)

\* ------------------------------------------------------------------------
\* extractTextFromZip, first attempt: rows and cells of the worksheet-data
\* blocks (FileRecoveryPreview.tsx 111-160)
\* ------------------------------------------------------------------------

\* the markup, as character codes:
\*   SheetDataOpen   <sheetData>
\*   SheetDataClose  </sheetData>
\*   RowTag          <row
\*   RowClose        </row>
\*   CellTag         <c
\*   ValueOpen       <v>
\*   ValueClose      </v></c>
\*   WorksheetOpen   <worksheet>
\*   WorksheetClose  </worksheet>
\*   RowOpen         <row r="1">
\*   RowSelfClosed   <row r="9"/>
\*   PlainOpen       <c r="A1">
\*   SharedOpen      <c r="B1" t="s">
\*   InlineOpen      <c r="C1" t="inlineStr"><is><t>
\*   InlineClose     </t></is></c>
\*   Formula         <f>A2</f>
Xml ==
  [ SheetDataOpen |-> <<60, 115, 104, 101, 101, 116, 68, 97, 116, 97, 62>>,
    SheetDataClose |-> <<60, 47, 115, 104, 101, 101, 116, 68, 97, 116, 97, 62>>,
    RowTag |-> <<60, 114, 111, 119>>,
    RowClose |-> <<60, 47, 114, 111, 119, 62>>,
    CellTag |-> <<60, 99>>,
    ValueOpen |-> <<60, 118, 62>>,
    ValueClose |-> <<60, 47, 118, 62, 60, 47, 99, 62>>,
    WorksheetOpen |-> <<60, 119, 111, 114, 107, 115, 104, 101, 101, 116, 62>>,
    WorksheetClose |-> <<60, 47, 119, 111, 114, 107, 115, 104, 101, 101, 116, 62>>,
    RowOpen |-> <<60, 114, 111, 119, 32, 114, 61, 34, 49, 34, 62>>,
    RowSelfClosed |-> <<60, 114, 111, 119, 32, 114, 61, 34, 57, 34, 47, 62>>,
    PlainOpen |-> <<60, 99, 32, 114, 61, 34, 65, 49, 34, 62>>,
    SharedOpen |-> <<60, 99, 32, 114, 61, 34, 66, 49, 34, 32, 116, 61, 34, 115, 34, 62>>,
    InlineOpen |-> <<60, 99, 32, 114, 61, 34, 67, 49, 34, 32, 116, 61, 34, 105, 110, 108, 105, 110, 101, 83, 116, 114, 34, 62, 60, 105, 115, 62, 60, 116, 62>>,
    InlineClose |-> <<60, 47, 116, 62, 60, 47, 105, 115, 62, 60, 47, 99, 62>>,
    Formula |-> <<60, 102, 62, 65, 50, 60, 47, 102, 62>> ]

\* String.indexOf on character codes: the least zero-based offset >= from at
\* which lit occurs in w, or -1
IndexOf(w, lit, from) ==
  LET js == {j \in from..(Len(w) - Len(lit)) : OccursAt(w, lit, j)}
  IN  IF js = {} THEN -1 ELSE MinSet(js)

\* w.slice(a, b) for 0 <= a <= b
Slice(w, a, b) == SubSeq(w, a + 1, b)

\* the characters String.trim removes, among the ASCII ones
IsWhitespace(b) == b \in {9, 10, 11, 12, 13, 32}

\* cellMatch[1].trim().length > 0
NonBlank(value) == \E k \in 1..Len(value) : ~IsWhitespace(value[k])

\* line 134, /<c[^>]*><v>([^<]*)<\/v><\/c>/ tried at offset i: the tag runs to
\* the first ">", "<v>" follows at once, the value runs to the first "<",
\* where "</v></c>" must stand.  [value, end], or NoCell
NoCell == [value |-> <<>>, end |-> -1]

CellAt(s, i) ==
  LET g == IndexOf(s, <<62>>, i + Len(Xml.CellTag))
      m == IF g = -1 THEN -1 ELSE IndexOf(s, <<60>>, g + 1 + Len(Xml.ValueOpen))
  IN  IF /\ OccursAt(s, Xml.CellTag, i)
         /\ g # -1
         /\ OccursAt(s, Xml.ValueOpen, g + 1)
         /\ m # -1
         /\ OccursAt(s, Xml.ValueClose, m)
      THEN [value |-> Slice(s, g + 1 + Len(Xml.ValueOpen), m),
            end |-> m + Len(Xml.ValueClose)]
      ELSE NoCell

RECURSIVE CellValues(_, _)
\* lines 138-143: the values of the cells matched in a row, left to right
CellValues(s, pos) ==
  LET is == {i \in pos..(Len(s) - Len(Xml.CellTag)) : CellAt(s, i) # NoCell}
  IN  IF is = {} THEN <<>>
      ELSE LET c == CellAt(s, MinSet(is))
           IN  <<c.value>> \o CellValues(s, c.end)

\* a plausible slip: every row with a cell is kept
KeepRow_anyCell(rowData) == Len(rowData) > 0

\* line 146: hasContent && rowData.length > 0
KeepRow(rowData) ==
  (\E k \in 1..Len(rowData) : NonBlank(rowData[k])) /\ Len(rowData) > 0

RECURSIVE TableRows(_, _)
\* lines 125-150, /<row[^>]*>([\s\S]*?)<\/row>/g: the rows kept from a block
TableRows(s, pos) ==
  LET i == IndexOf(s, Xml.RowTag, pos)
      g == IF i = -1 THEN -1 ELSE IndexOf(s, <<62>>, i + Len(Xml.RowTag))
      e == IF g = -1 THEN -1 ELSE IndexOf(s, Xml.RowClose, g + 1)
  IN  IF e = -1 THEN <<>>
      ELSE LET rowContent == Slice(s, g + 1, e)
               rowData == IF Len(rowContent) > 0 THEN CellValues(rowContent, 0) ELSE <<>>
           IN  (IF KeepRow(rowData) THEN <<rowData>> ELSE <<>>)
               \o TableRows(s, e + Len(Xml.RowClose))

MaxTables == 3

RECURSIVE SheetTables_countsBlocks(_, _, _)
\* a plausible slip: every block examined counts towards the limit
SheetTables_countsBlocks(w, pos, tableCount) ==
  LET i == IndexOf(w, Xml.SheetDataOpen, pos)
      e == IF i = -1 THEN -1 ELSE IndexOf(w, Xml.SheetDataClose, i + Len(Xml.SheetDataOpen))
  IN  IF e = -1 \/ ~(tableCount < MaxTables) THEN <<>>
      ELSE LET sheetData == Slice(w, i + Len(Xml.SheetDataOpen), e)
               tableData == IF Len(sheetData) > 0 THEN TableRows(sheetData, 0) ELSE <<>>
               next == e + Len(Xml.SheetDataClose)
           IN  (IF Len(tableData) > 0
                THEN <<[name |-> "Sheet " \o ToString(tableCount + 1), data |-> tableData]>>
                ELSE <<>>)
               \o SheetTables_countsBlocks(w, next, tableCount + 1)

RECURSIVE SheetTables(_, _, _)
\* lines 115-160, /<sheetData>([\s\S]*?)<\/sheetData>/g: the tables of the
\* blocks found from offset pos on, tableCount tables having been pushed
SheetTables(w, pos, tableCount) ==
  LET i == IndexOf(w, Xml.SheetDataOpen, pos)
      e == IF i = -1 THEN -1 ELSE IndexOf(w, Xml.SheetDataClose, i + Len(Xml.SheetDataOpen))
  IN  IF e = -1 \/ ~(tableCount < MaxTables) THEN <<>>
      ELSE LET sheetData == Slice(w, i + Len(Xml.SheetDataOpen), e)
               tableData == IF Len(sheetData) > 0 THEN TableRows(sheetData, 0) ELSE <<>>
               next == e + Len(Xml.SheetDataClose)
           IN  IF Len(tableData) > 0
               THEN <<[name |-> "Sheet " \o ToString(tableCount + 1), data |-> tableData]>>
                    \o SheetTables(w, next, tableCount + 1)
               ELSE SheetTables(w, next, tableCount)

\* TextDecoder.decode on the bytes the model uses: an ASCII byte is the
\* character of the same code, any other byte the replacement character
DecodeUtf8(bytes) == [k \in 1..Len(bytes) |-> IF bytes[k] < 128 THEN bytes[k] ELSE 65533]

\* ------------------------------------------------------------------------
\* extractTextFromBinary (FileRecoveryPreview.tsx 381-473)
\* ------------------------------------------------------------------------

\* the fixed lines of text, as character codes
Msg ==
  [ NoReadableText |-> <<78, 111, 32, 114, 101, 97, 100, 97, 98, 108, 101, 32,
      116, 101, 120, 116, 32, 99, 111, 117, 108, 100, 32, 98, 101, 32, 114,
      101, 99, 111, 118, 101, 114, 101, 100, 32, 102, 114, 111, 109, 32, 116,
      104, 105, 115, 32, 102, 105, 108, 101, 46>>,
    NoContentFound |-> <<78, 111, 32, 114, 101, 97, 100, 97, 98, 108, 101, 32,
      116, 101, 120, 116, 32, 99, 111, 110, 116, 101, 110, 116, 32, 102, 111,
      117, 110, 100>> ]

\* [a-zA-Z]
IsLetter(c) == (c >= 65 /\ c <= 90) \/ (c >= 97 /\ c <= 122)

\* [0-9]
IsDigit(c) == c >= 48 /\ c <= 57

\* line 392: a printable ASCII character, a tab, a line feed or a carriage return
IsPrintable(b) == (b >= 32 /\ b <= 126) \/ b = 9 \/ b = 10 \/ b = 13

\* String.trim
Trim(t) ==
  LET Between(ks) ==
        IF ks = {} THEN <<>>
        ELSE SubSeq(t, MinSet(ks), CHOOSE k \in ks : \A j \in ks : j <= k)
  IN  Between({k \in 1..Len(t) : ~IsWhitespace(t[k])})

\* /[a-zA-Z]{n,}/.test(t)
HasLetterRun(t, n) ==
  \E i \in 1..(Len(t) - n + 1) : \A j \in 0..(n - 1) : IsLetter(t[i + j])

\* /^[0-9.,-]+$/.test(t)
OnlyNumeric(t) ==
  Len(t) > 0 /\ \A k \in 1..Len(t) : IsDigit(t[k]) \/ t[k] \in {46, 44, 45}

\* /[\x00-\x08\x0B\x0C\x0E-\x1F\x7F]/.test(t)
HasControlChar(t) ==
  \E k \in 1..Len(t) :
     (t[k] >= 0 /\ t[k] <= 8) \/ t[k] = 11 \/ t[k] = 12 \/ (t[k] >= 14 /\ t[k] <= 31)
     \/ t[k] = 127

\* the characters /[^a-zA-Z0-9.,;:'"!? -]/g leaves in place
IsNormalChar(c) == IsLetter(c) \/ IsDigit(c) \/ c \in {46, 44, 59, 58, 39, 34, 33, 63, 32, 45}

\* the elements of a set of integers in increasing order
RECURSIVE Ascending(_)
Ascending(S) == IF S = {} THEN <<>> ELSE <<MinSet(S)>> \o Ascending(S \ {MinSet(S)})

MinRunLen == 4

\* a plausible slip: runs of three characters are taken too
IsBlockRun_fromThree(run) == Len(run) >= MinRunLen - 1

\* lines 396 and 408: currentBlock.length >= 4
IsBlockRun(run) == Len(run) >= MinRunLen

\* lines 389-405 and 408: the maximal runs of printable bytes, in order, that
\* are long enough
ByteRuns(bytes) ==
  LET EndOf(i) == MinSet({j \in i..Len(bytes) :
                            j = Len(bytes) \/ ~IsPrintable(bytes[j + 1])})
      Runs(order) == [k \in 1..Len(order) |-> SubSeq(bytes, order[k], EndOf(order[k]))]
  IN  SelectSeq(Runs(Ascending({i \in 1..Len(bytes) :
                                  /\ IsPrintable(bytes[i])
                                  /\ i = 1 \/ ~IsPrintable(bytes[i - 1])})),
                IsBlockRun)

\* lines 399 and 410: the first filter, on the trimmed text of a run
IsKeptBlock(blockText) == HasLetterRun(blockText, 2) /\ ~OnlyNumeric(blockText)

\* lines 386-413
TextBlocks(bytes) ==
  LET Texts(runs) == [k \in 1..Len(runs) |-> Trim(DecodeUtf8(runs[k]))]
  IN  SelectSeq(Texts(ByteRuns(bytes)), IsKeptBlock)

\* line 424, n > length * 0.7 in double arithmetic, for lengths below 650:
\* the product is exact or above 7/10 of the length, except at the lengths
\* 90, 170, 180, 330, 340, 350 and 360, where it is rounded to just below
ExceedsRatio(n, length) ==
  IF length \in {90, 170, 180, 330, 340, 350, 360}
  THEN 10 * n >= 7 * length
  ELSE 10 * n > 7 * length

\* lines 419-424: the second filter
IsCleanBlock(block) ==
  /\ Len(block) >= 3
  /\ HasLetterRun(block, 3)
  /\ ~HasControlChar(block)
  /\ ExceedsRatio(Cardinality({k \in 1..Len(block) : IsNormalChar(block[k])}), Len(block))

MaxCleanedBlocks == 40

\* lines 416-428: second filter, first occurrences only, at most 40
CleanedBlocks(bytes) ==
  LET Limited(unique) == SubSeq(unique, 1, Min(Len(unique), MaxCleanedBlocks))
      At(clean, firsts) == [k \in 1..Len(firsts) |-> clean[firsts[k]]]
      Unique(clean) ==
        At(clean, Ascending({k \in 1..Len(clean) :
                               \A j \in 1..(k - 1) : clean[j] # clean[k]}))
  IN  Limited(Unique(SelectSeq(TextBlocks(bytes), IsCleanBlock)))

RECURSIVE Split(_, _)
\* String.split on a one-character delimiter
Split(t, delim) ==
  LET i == IndexOf(t, <<delim>>, 0)
  IN  IF i = -1 THEN <<t>>
      ELSE <<Slice(t, 0, i)>> \o Split(Slice(t, i + 1, Len(t)), delim)

\* lines 434-439
IsTableLine(block) ==
  /\ Includes(block, <<9>>) \/ Includes(block, <<44>>)
  /\ Len(Split(block, 9)) > 1 \/ Len(Split(block, 44)) > 1

MinTableLines == 3

\* lines 431-456
BinaryTables(cleanedBlocks) ==
  LET Cells(line, delimiter) ==
        [k \in 1..Len(Split(line, delimiter)) |-> Trim(Split(line, delimiter)[k])]
      Table(tableLines, delimiter) ==
        <<[name |-> "Recovered Table",
           data |-> [k \in 1..Len(tableLines) |-> Cells(tableLines[k], delimiter)]]>>
      Of(tableLines) ==
        IF Len(tableLines) >= MinTableLines
        THEN Table(tableLines, IF Includes(tableLines[1], <<9>>) THEN 9 ELSE 44)
        ELSE <<>>
  IN  Of(SelectSeq(cleanedBlocks, IsTableLine))

\* a RecoveredContent
Content(text, tbls, type, source) ==
  [text |-> text, tables |-> tbls, type |-> type, source |-> source]

\* lines 381-473
extractTextFromBinary(bytes) ==
  LET Returned(cleanedBlocks) ==
        IF Len(cleanedBlocks) > 0
        THEN Content(cleanedBlocks, BinaryTables(cleanedBlocks), "binary",
                     "Text recovered from binary Excel file")
        ELSE Content(<<Msg.NoReadableText>>, <<>>, "binary", "Binary file analysis")
  IN  Returned(CleanedBlocks(bytes))

\* ------------------------------------------------------------------------
\* extractTextFromZip as a whole (FileRecoveryPreview.tsx 62-379)
\* ------------------------------------------------------------------------

\* the fragments of the patterns of lines 71-291, as character codes:
\*   Creator        <dc:creator>
\*   CreatorEnd     </dc:creator>
\*   ModifiedBy     <cp:lastModifiedBy>
\*   ModifiedByEnd  </cp:lastModifiedBy>
\*   Title          <dc:title>
\*   TitleEnd       </dc:title>
\*   SheetName      <sheet name="
\*   Quote          "
\*   Sst            <sst
\*   SstEnd         </sst>
\*   Si             <si>
\*   SiEnd          </si>
\*   T              <t
\*   TEnd           </t>
\*   CellRef        <c r="
\*   SharedAttr     t="s"
\*   V              <v>
\*   VEnd           </v></c>
\*   IsT            <is><t>
\*   IsTEnd         </t></is></c>
\*   C              <c
\*   IdHead         <sheet[^>]*name="
\*   IdTail         "[^>]*r:id="([^"]+)"
Frag ==
  [ Creator |-> <<60, 100, 99, 58, 99, 114, 101, 97, 116, 111, 114, 62>>,
    CreatorEnd |-> <<60, 47, 100, 99, 58, 99, 114, 101, 97, 116, 111, 114, 62>>,
    ModifiedBy |-> <<60, 99, 112, 58, 108, 97, 115, 116, 77, 111, 100, 105, 102, 105, 101, 100, 66,
        121, 62>>,
    ModifiedByEnd |-> <<60, 47, 99, 112, 58, 108, 97, 115, 116, 77, 111, 100, 105, 102, 105, 101,
        100, 66, 121, 62>>,
    Title |-> <<60, 100, 99, 58, 116, 105, 116, 108, 101, 62>>,
    TitleEnd |-> <<60, 47, 100, 99, 58, 116, 105, 116, 108, 101, 62>>,
    SheetName |-> <<60, 115, 104, 101, 101, 116, 32, 110, 97, 109, 101, 61, 34>>,
    Quote |-> <<34>>,
    Sst |-> <<60, 115, 115, 116>>,
    SstEnd |-> <<60, 47, 115, 115, 116, 62>>,
    Si |-> <<60, 115, 105, 62>>,
    SiEnd |-> <<60, 47, 115, 105, 62>>,
    T |-> <<60, 116>>,
    TEnd |-> <<60, 47, 116, 62>>,
    CellRef |-> <<60, 99, 32, 114, 61, 34>>,
    SharedAttr |-> <<116, 61, 34, 115, 34>>,
    V |-> <<60, 118, 62>>,
    VEnd |-> <<60, 47, 118, 62, 60, 47, 99, 62>>,
    IsT |-> <<60, 105, 115, 62, 60, 116, 62>>,
    IsTEnd |-> <<60, 47, 116, 62, 60, 47, 105, 115, 62, 60, 47, 99, 62>>,
    C |-> <<60, 99>>,
    IdHead |-> <<60, 115, 104, 101, 101, 116, 91, 94, 62, 93, 42, 110, 97, 109, 101, 61, 34>>,
    IdTail |-> <<34, 91, 94, 62, 93, 42, 114, 58, 105, 100, 61, 34, 40, 91, 94, 34, 93, 43, 41, 34>>
        ]

\* what the lines of text and the header cell start with:
\*   Creator     Creator: 
\*   ModifiedBy  Last modified by: 
\*   Title       Title: 
\*   Sheet       Sheet: 
\*   Value       Value
Label ==
  [ Creator |-> <<67, 114, 101, 97, 116, 111, 114, 58, 32>>,
    ModifiedBy |-> <<76, 97, 115, 116, 32, 109, 111, 100, 105, 102, 105, 101, 100, 32, 98, 121, 58,
        32>>,
    Title |-> <<84, 105, 116, 108, 101, 58, 32>>,
    Sheet |-> <<83, 104, 101, 101, 116, 58, 32>>,
    Value |-> <<86, 97, 108, 117, 101>> ]

\* [A-Z]
IsUpper(c) == c >= 65 /\ c <= 90

\* the character classes of the patterns: [A-Z], \d, [^<] and [^"]
InClass(c, class) ==
  CASE class = "upper" -> IsUpper(c)
    [] class = "digit" -> IsDigit(c)
    [] class = "notLt" -> c # 60
    [] class = "notQuote" -> c # 34

\* the offset at which the run of characters of a class that starts at offset
\* from ends (from itself when the character there is not of the class)
RunEnd(s, from, class) ==
  MinSet({j \in from..Len(s) : j = Len(s) \/ ~InClass(s[j + 1], class)})

\* the elements the patterns of lines 71-291 are made of: a literal; a
\* captured run of a class, ([c]+) or ([c]*); the rest of a tag, [^>]*ATTR> ;
\* and a lazy run of any characters, [\s\S]*? , captured or not
Element(kind, lit, class, min, capture) ==
  [kind |-> kind, lit |-> lit, class |-> class, min |-> min, capture |-> capture]

Literal(lit) == Element("lit", lit, "", 0, FALSE)

Plus(class) == Element("run", <<>>, class, 1, TRUE)

Star(class) == Element("run", <<>>, class, 0, TRUE)

TagRest(attr) == Element("tag", attr, "", 0, FALSE)

Lazy(capture) == Element("lazy", <<>>, "", 0, capture)

Rx ==
  [ \* line 71, /<dc:creator>([^<]+)<\/dc:creator>/
    Creator |-> <<Literal(Frag.Creator), Plus("notLt"), Literal(Frag.CreatorEnd)>>,
    \* line 78, /<cp:lastModifiedBy>([^<]+)<\/cp:lastModifiedBy>/
    ModifiedBy |-> <<Literal(Frag.ModifiedBy), Plus("notLt"), Literal(Frag.ModifiedByEnd)>>,
    \* line 85, /<dc:title>([^<]+)<\/dc:title>/
    Title |-> <<Literal(Frag.Title), Plus("notLt"), Literal(Frag.TitleEnd)>>,
    \* line 93, /<sheet name="([^"]+)"/g
    Worksheet |-> <<Literal(Frag.SheetName), Plus("notQuote"), Literal(Frag.Quote)>>,
    \* line 166, /<sst[^>]*>([\s\S]*?)<\/sst>/
    StringTable |-> <<Literal(Frag.Sst), TagRest(<<>>), Lazy(TRUE), Literal(Frag.SstEnd)>>,
    \* line 171, /<si>[\s\S]*?<t[^>]*>([^<]*)<\/t>[\s\S]*?<\/si>/g
    StringItem |-> <<Literal(Frag.Si), Lazy(FALSE), Literal(Frag.T), TagRest(<<>>), Star("notLt"),
                     Literal(Frag.TEnd), Lazy(FALSE), Literal(Frag.SiEnd)>>,
    \* line 182, /<c r="([A-Z]+)(\d+)"[^>]*t="s"><v>(\d+)<\/v><\/c>/g
    CellRef |-> <<Literal(Frag.CellRef), Plus("upper"), Plus("digit"), Literal(Frag.Quote),
                  TagRest(Frag.SharedAttr), Literal(Frag.V), Plus("digit"), Literal(Frag.VEnd)>>,
    \* line 203, /<c r="([A-Z]+)(\d+)"[^>]*><is><t>([^<]*)<\/t><\/is><\/c>/g
    InlineString |-> <<Literal(Frag.CellRef), Plus("upper"), Plus("digit"), Literal(Frag.Quote),
                       TagRest(<<>>), Literal(Frag.IsT), Star("notLt"), Literal(Frag.IsTEnd)>>,
    \* line 219, /<c r="([A-Z]+)(\d+)"[^>]*><v>([^<]*)<\/v><\/c>/g
    Numeric |-> <<Literal(Frag.CellRef), Plus("upper"), Plus("digit"), Literal(Frag.Quote),
                  TagRest(<<>>), Literal(Frag.V), Star("notLt"), Literal(Frag.VEnd)>>,
    \* line 281, /<t[^>]*>([^<]+)<\/t>/g
    String |-> <<Literal(Frag.T), TagRest(<<>>), Plus("notLt"), Literal(Frag.TEnd)>>,
    \* line 291, /<c[^>]*><v>([^<]+)<\/v><\/c>/g
    Cell |-> <<Literal(Frag.C), TagRest(<<>>), Literal(Frag.V), Plus("notLt"), Literal(Frag.VEnd)>> ]

\* a match: the captured groups and the offset after the match
Unmatched == [groups |-> <<>>, end |-> -1]

RECURSIVE Match(_, _, _, _, _)
\* the elements of rx from the k-th on matched at offset pos of s, groups
\* having been captured.  In these patterns a run of a class is followed by a
\* character outside the class, so only the longest run can match; the rest
\* of a tag ends at the first ">", before which ATTR must stand; a lazy run
\* ends at the nearest offset from which what follows matches
Match(rx, s, k, pos, groups) ==
  IF k > Len(rx) THEN [groups |-> groups, end |-> pos]
  ELSE CASE rx[k].kind = "lit" ->
              IF OccursAt(s, rx[k].lit, pos)
              THEN Match(rx, s, k + 1, pos + Len(rx[k].lit), groups)
              ELSE Unmatched
         [] rx[k].kind = "run" ->
              LET stop == RunEnd(s, pos, rx[k].class)
              IN  IF stop - pos >= rx[k].min
                  THEN Match(rx, s, k + 1, stop, Append(groups, Slice(s, pos, stop)))
                  ELSE Unmatched
         [] rx[k].kind = "tag" ->
              LET g == IndexOf(s, <<62>>, pos)
              IN  IF /\ g # -1
                     /\ g - Len(rx[k].lit) >= pos
                     /\ OccursAt(s, rx[k].lit, g - Len(rx[k].lit))
                  THEN Match(rx, s, k + 1, g + 1, groups)
                  ELSE Unmatched
         [] rx[k].kind = "lazy" ->
              LET ps == {p \in pos..Len(s) : Match(rx, s, k + 1, p, groups) # Unmatched}
              IN  IF ps = {} THEN Unmatched
                  ELSE Match(rx, s, k + 1, MinSet(ps),
                             IF rx[k].capture
                             THEN Append(groups, Slice(s, pos, MinSet(ps)))
                             ELSE groups)

\* regex.exec(s) with lastIndex pos: the leftmost match from pos on
Exec(rx, s, pos) ==
  LET is == {i \in pos..Len(s) : Match(rx, s, 1, i, <<>>) # Unmatched}
  IN  IF is = {} THEN Unmatched ELSE Match(rx, s, 1, MinSet(is), <<>>)

RECURSIVE Matches(_, _, _)
\* while ((m = regex.exec(s)) !== null): the matches of a /g pattern in order
Matches(rx, s, pos) ==
  LET c == Exec(rx, s, pos)
  IN  IF c = Unmatched THEN <<>> ELSE <<c>> \o Matches(rx, s, c.end)

\* the first group of each match
Captures(ms) == [k \in 1..Len(ms) |-> ms[k].groups[1]]

\* lines 67-89
DocProps(s) ==
  LET Prop(rx, label) ==
        IF Exec(rx, s, 0) # Unmatched THEN <<label \o Exec(rx, s, 0).groups[1]>> ELSE <<>>
  IN  Prop(Rx.Creator, Label.Creator) \o Prop(Rx.ModifiedBy, Label.ModifiedBy)
      \o Prop(Rx.Title, Label.Title)

\* lines 93-99: the sheet names declared, in order
SheetNames(s) == Captures(Matches(Rx.Worksheet, s, 0))

\* line 103: the source of the pattern built around a sheet name
IdPattern(sheetName) == Frag.IdHead \o sheetName \o Frag.IdTail

RECURSIVE Parses(_, _, _, _)
\* new RegExp(src) does not throw: src read from offset k, inside depth open
\* groups, atom telling whether a quantifier may follow.  A backslash takes
\* the next character; "[" opens a class that the next "]" not behind a
\* backslash closes; "(" opens a group, "(?" only with ":", "=", "!", "<="
\* or "<!"; ")" needs an open group; "*", "+" and "?" need something to
\* repeat, and may be followed by one "?"; every other character, "]" and
\* "{" among them, stands for itself.  (Counted repetitions, named groups
\* and ranges in classes are left out: the names of the model have none.)
Parses(src, k, depth, atom) ==
  LET c == src[k + 1]
      closes == {j \in (k + 1)..(Len(src) - 1) : src[j + 1] = 93 /\ src[j] # 92}
      lazy == IF OccursAt(src, <<63>>, k + 1) THEN 1 ELSE 0
  IN  IF k >= Len(src) THEN depth = 0
      ELSE CASE c = 92 -> k + 1 < Len(src) /\ Parses(src, k + 2, depth, TRUE)
             [] c = 91 -> closes # {} /\ Parses(src, MinSet(closes) + 1, depth, TRUE)
             [] c = 40 ->
                  IF OccursAt(src, <<63>>, k + 1)
                  THEN \/ /\ \E x \in {58, 61, 33} : OccursAt(src, <<x>>, k + 2)
                          /\ Parses(src, k + 3, depth + 1, FALSE)
                       \/ /\ \E x \in {61, 33} : OccursAt(src, <<60, x>>, k + 2)
                          /\ Parses(src, k + 4, depth + 1, FALSE)
                  ELSE Parses(src, k + 1, depth + 1, FALSE)
             [] c = 41 -> depth > 0 /\ Parses(src, k + 1, depth - 1, TRUE)
             [] c \in {42, 43, 63} -> atom /\ Parses(src, k + 1 + lazy, depth, FALSE)
             [] c \in {124, 94, 36} -> Parses(src, k + 1, depth, FALSE)
             [] OTHER -> Parses(src, k + 1, depth, TRUE)

\* lines 96-108 run to the end: no pattern built around one of the sheet
\* names throws (the sheet ids collected there are used nowhere)
IdPatternsCompile(names) ==
  \A k \in 1..Len(names) : Parses(IdPattern(names[k]), 0, 0, FALSE)

\* lines 91-99: the lines of text for the sheet names
WorksheetNames(names) == [k \in 1..Len(names) |-> Label.Sheet \o names[k]]

\* lines 171-178: the text of the items matched; an empty text is not pushed
SharedStrings(stringTable) ==
  SelectSeq(Captures(Matches(Rx.StringItem, stringTable, 0)), LAMBDA v : Len(v) > 0)

RECURSIVE ParseInt(_)
\* parseInt on a string of decimal digits
ParseInt(ds) ==
  IF Len(ds) = 0 THEN 0
  ELSE 10 * ParseInt(SubSeq(ds, 1, Len(ds) - 1)) + (ds[Len(ds)] - 48)

RECURSIVE NumberText(_)
\* Number.toString on a natural number
NumberText(n) ==
  IF n < 10 THEN <<48 + n>> ELSE NumberText(n \div 10) \o <<48 + (n % 10)>>

\* the order of Array.sort on strings: by code unit, a prefix first
SortsBefore(a, b) ==
  \E k \in 1..Len(b) :
     /\ \A j \in 1..(k - 1) : j <= Len(a) /\ a[j] = b[j]
     /\ Len(a) < k \/ (Len(a) >= k /\ a[k] < b[k])

RECURSIVE Sorted(_)
\* the strings of a set in that order
Sorted(S) ==
  IF S = {} THEN <<>>
  ELSE LET least == CHOOSE a \in S : \A b \in S \ {a} : SortsBefore(a, b)
       IN  <<least>> \o Sorted(S \ {least})

\* an entry written to cellData: its key is the column followed by the row
CellEntry(col, row, value) == [col |-> col, row |-> row, value |-> value]

\* lines 182-232: the writes to cellData in the order they are made, by the
\* shared-string pass, the inline-string pass and the numeric pass
CellWrites(s, sharedStrings) ==
  LET Listed(c) == ParseInt(c.groups[3]) < Len(sharedStrings)
      Looked(c) == CellEntry(c.groups[1], ParseInt(c.groups[2]),
                             sharedStrings[ParseInt(c.groups[3]) + 1])
      Taken(c) == CellEntry(c.groups[1], ParseInt(c.groups[2]), c.groups[3])
      Each(ms, Entry(_)) == [k \in 1..Len(ms) |-> Entry(ms[k])]
  IN  Each(SelectSeq(Matches(Rx.CellRef, s, 0), Listed), Looked)
      \o Each(Matches(Rx.InlineString, s, 0), Taken)
      \o Each(Matches(Rx.Numeric, s, 0), Taken)

\* line 254, cellData[cellKey]?.value || '': the value last written for the key
CellValueAt(writes, col, row) ==
  LET ks == {k \in 1..Len(writes) : writes[k].col = col /\ writes[k].row = row}
  IN  IF ks = {} THEN <<>> ELSE writes[CHOOSE k \in ks : \A j \in ks : j <= k].value

\* lines 235-264: the table of the cells by sorted row and column
SpreadsheetTable(writes) ==
  LET Table(rows, cols) ==
        <<[name |-> "Recovered Spreadsheet",
           data |-> <<(<< <<>> >> \o cols)>>
                    \o [r \in 1..Len(rows) |->
                          <<NumberText(rows[r])>>
                          \o [c \in 1..Len(cols) |-> CellValueAt(writes, cols[c], rows[r])]]]>>
  IN  IF Len(writes) > 0
      THEN Table(Ascending({writes[k].row : k \in 1..Len(writes)}),
                 Sorted({writes[k].col : k \in 1..Len(writes)}))
      ELSE <<>>

\* lines 162-267, entered when the first attempt made no table: nothing is
\* done when the string table is missing or empty
SecondAttempt(s) ==
  LET stringTableMatch == Exec(Rx.StringTable, s, 0)
  IN  IF stringTableMatch = Unmatched \/ Len(stringTableMatch.groups[1]) = 0 THEN <<>>
      ELSE SpreadsheetTable(CellWrites(s, SharedStrings(stringTableMatch.groups[1])))

\* lines 280-286: the trimmed text of the text elements that are not blank
StringValues(s) ==
  LET Trimmed(vs) == [k \in 1..Len(vs) |-> Trim(vs[k])]
  IN  Trimmed(SelectSeq(Captures(Matches(Rx.String, s, 0)), LAMBDA v : Len(Trim(v)) > 0))

\* lines 289-300: the cell values longer than three characters or with a letter
CellTexts(s) ==
  SelectSeq(Captures(Matches(Rx.Cell, s, 0)), LAMBDA v : Len(v) > 3 \/ HasLetterRun(v, 1))

MaxStringLines == 50

MaxCellLines == 20

\* lines 303-320, lines being the document properties and the worksheet names
AllContent(lines, stringValues, cellValues) ==
  LET strs == SelectSeq(stringValues,
                LAMBDA t : /\ Len(t) > 1
                           /\ ~Includes(t, <<60>>) /\ ~Includes(t, <<62>>)
                           /\ HasLetterRun(t, 1) /\ ~OnlyNumeric(t))
      vals == SelectSeq(cellValues,
                LAMBDA t : Len(t) > 1 /\ HasLetterRun(t, 1) /\ ~OnlyNumeric(t))
  IN  lines \o SubSeq(strs, 1, Min(Len(strs), MaxStringLines))
      \o SubSeq(vals, 1, Min(Len(vals), MaxCellLines))

MaxChunkLen == 10

RECURSIVE Chunks(_, _, _)
\* lines 330-351: the chunks made of the values from the k-th on, currentChunk
\* being the chunk under construction
Chunks(values, k, currentChunk) ==
  IF k > Len(values)
  THEN IF Len(currentChunk) > 0 THEN <<currentChunk>> ELSE <<>>
  ELSE IF Len(Trim(values[k])) = 0
  THEN (IF Len(currentChunk) > 0 THEN <<currentChunk>> ELSE <<>>)
       \o Chunks(values, k + 1, <<>>)
  ELSE IF Len(currentChunk) + 1 >= MaxChunkLen
  THEN <<Append(currentChunk, values[k])>> \o Chunks(values, k + 1, <<>>)
  ELSE Chunks(values, k + 1, Append(currentChunk, values[k]))

MinChunkRows == 3

\* lines 354-356: the first of the largest chunks
LargestChunk(chunks) ==
  chunks[MinSet({k \in 1..Len(chunks) :
                   \A j \in 1..Len(chunks) : Len(chunks[j]) <= Len(chunks[k])})]

\* lines 323-370: a one-column table of the largest chunk
DataTable(stringValues, cellValues) ==
  LET Table(largest) ==
        IF Len(largest) >= MinChunkRows
        THEN <<[name |-> "Recovered Data",
                data |-> << <<Label.Value>> >>
                         \o [k \in 1..Len(largest) |-> <<largest[k]>>]]>>
        ELSE <<>>
      OfChunks(chunks) == IF Len(chunks) > 0 THEN Table(LargestChunk(chunks)) ELSE <<>>
  IN  OfChunks(Chunks(stringValues \o cellValues, 1, <<>>))

\* what the call does when a pattern built at line 103 throws
Thrown == [thrown |-> TRUE]

\* lines 279-378: the third layer
ThirdLayer(lines, stringValues, cellValues) ==
  LET OrFallback(allContent) ==
        IF Len(allContent) > 0 THEN allContent ELSE <<Msg.NoContentFound>>
  IN  Content(OrFallback(AllContent(lines, stringValues, cellValues)),
              DataTable(stringValues, cellValues), "xml",
              "Content extracted from Excel file")

\* a plausible slip: the second attempt is made whatever the first one gave
extractTextFromZip_secondAttemptAlways(bytes) ==
  LET Attempts(s, first) == first \o SecondAttempt(s)
      Returned(s, lines, tbls) ==
        IF Len(tbls) > 0
        THEN Content(lines, tbls, "xml", "Spreadsheet content recovered from Excel file")
        ELSE ThirdLayer(lines, StringValues(s), CellTexts(s))
      Named(s, names) ==
        IF ~IdPatternsCompile(names) THEN Thrown
        ELSE Returned(s, DocProps(s) \o WorksheetNames(names),
                      Attempts(s, SheetTables(s, 0, 0)))
      Decoded(s) == Named(s, SheetNames(s))
  IN  Decoded(DecodeUtf8(bytes))

\* lines 62-379
extractTextFromZip(bytes) ==
  LET Attempts(s, first) == IF Len(first) = 0 THEN SecondAttempt(s) ELSE first
      Returned(s, lines, tbls) ==
        IF Len(tbls) > 0
        THEN Content(lines, tbls, "xml", "Spreadsheet content recovered from Excel file")
        ELSE ThirdLayer(lines, StringValues(s), CellTexts(s))
      Named(s, names) ==
        IF ~IdPatternsCompile(names) THEN Thrown
        ELSE Returned(s, DocProps(s) \o WorksheetNames(names),
                      Attempts(s, SheetTables(s, 0, 0)))
      Decoded(s) == Named(s, SheetNames(s))
  IN  Decoded(DecodeUtf8(bytes))

\* ------------------------------------------------------------------------
\* FileRecoveryPreview (FileRecoveryPreview.tsx 19-60, 475-477)
\* ------------------------------------------------------------------------

\* lines 42-44
isZip(bytes) ==
  /\ Len(bytes) >= 4
  /\ B(bytes, 0) = 80 /\ B(bytes, 1) = 75 /\ B(bytes, 2) = 3 /\ B(bytes, 3) = 4

\* lines 38-52: the RecoveredContent extracted from the bytes of a file, with
\* the file it was computed from, or Thrown
RecoverContent(f) ==
  LET Extract(bytes) == IF isZip(bytes) THEN extractTextFromZip(bytes)
                        ELSE extractTextFromBinary(bytes)
      From(content) ==
        IF content = Thrown THEN Thrown
        ELSE [text |-> content.text, tables |-> content.tables, type |-> content.type,
              source |-> content.source, from |-> f]
  IN  From(Extract(Bytes(f.buf)))

\* a plausible slip: the effect does not look at the stored content
ShouldRecover_ignoresStored(f, show, content) == f # None /\ show

\* line 25: the guard of the effect
ShouldRecover(f, show, content) == f # None /\ show /\ content = None

MaxStarted == 3

PreviewFiles ==
  { [name |-> [stem |-> "book", ext |-> "xlsx"], lastModified |-> 1700000000, buf |-> b] :
      b \in { <<Part(Sig_Zip, 1), Part(<<0>>, 150)>>,
              <<Part(Sig_Xls8, 1), Part(<<0>>, 150)>>,
              <<Part(<<0>>, MinFileSize)>> } }

\* the component is mounted with its file; the effect finds the preview hidden
InitPreview ==
  /\ CheckIdle /\ ZipIdle /\ UploadIdle
  /\ rfile \in PreviewFiles
  /\ showPreview = FALSE /\ isLoading = FALSE
  /\ recoveredContent = None /\ recoveryError = Null /\ inflight = {} /\ started = 0

\* lines 24-31: the effect after a render with file f and visibility show;
\* attemptContentRecovery, when called, sets isLoading and awaits the bytes of
\* the file of that render
RunEffect(f, show) ==
  IF ShouldRecover(f, show, recoveredContent)
  THEN /\ started < MaxStarted
       /\ started' = started + 1
       /\ inflight' = inflight \cup {[id |-> started + 1, file |-> f]}
       /\ isLoading' = TRUE
  ELSE UNCHANGED <<started, inflight, isLoading>>

\* lines 475-477: the button, enabled unless isLoading, toggles the preview
TogglePreview ==
  /\ ~isLoading
  /\ showPreview' = ~showPreview
  /\ RunEffect(rfile, ~showPreview)
  /\ UNCHANGED <<rfile, recoveredContent, recoveryError>>
  /\ UNCHANGED <<checkVars, zipVars, uploadVars>>

\* the parent renders the mounted component with another file
FileChanged(f) ==
  /\ f # rfile
  /\ rfile' = f
  /\ RunEffect(f, showPreview)
  /\ UNCHANGED <<showPreview, recoveredContent, recoveryError>>
  /\ UNCHANGED <<checkVars, zipVars, uploadVars>>

\* lines 35-58: the bytes arrived and the content is extracted; it is stored,
\* unless the extraction threw, which the handler of line 55 logs
RecoveryDone(r) ==
  /\ r \in inflight
  /\ inflight' = inflight \ {r}
  /\ \E content \in {RecoverContent(r.file)} :
       IF content = Thrown
       THEN recoveryError' = "SyntaxError" /\ UNCHANGED recoveredContent
       ELSE recoveredContent' = content /\ UNCHANGED recoveryError
  /\ isLoading' = FALSE
  /\ UNCHANGED <<rfile, showPreview, started>>
  /\ UNCHANGED <<checkVars, zipVars, uploadVars>>

\* lines 55-58: the read was rejected
RecoveryFails(r) ==
  /\ r \in inflight
  /\ inflight' = inflight \ {r}
  /\ isLoading' = FALSE
  /\ recoveryError' = "NotReadableError"
  /\ UNCHANGED <<rfile, showPreview, recoveredContent, started>>
  /\ UNCHANGED <<checkVars, zipVars, uploadVars>>

NextPreview ==
  \/ TogglePreview
  \/ \E f \in PreviewFiles : FileChanged(f)
  \/ \E r \in inflight : RecoveryDone(r)
  \/ \E r \in inflight : RecoveryFails(r)

SpecPreview == InitPreview /\ [][NextPreview]_vars

\* C8: once a RecoveredContent is stored, a toggle of the preview with the
\* same file starts no recovery and leaves the stored content unchanged; so
\* does every other step once no earlier recovery is still in flight.
C8_TogglesKeepStoredContent ==
  [][ (/\ recoveredContent # None
       /\ rfile' = rfile
       /\ (showPreview' # showPreview \/ inflight = {}))
        => (started' = started /\ recoveredContent' = recoveredContent) ]_vars

\* C8 witness: the content of the one recovery ever started is stored and the
\* preview was hidden afterwards (the button is disabled until the recovery
\* settles, so the hiding toggle came after the content was stored)
C8_Witness ==
  /\ recoveredContent # None
  /\ recoveredContent.from = rfile
  /\ started = 1 /\ inflight = {}
  /\ showPreview = FALSE

\* C18 (as claimed): whenever the component holds a stored RecoveredContent,
\* it was computed from the bytes of the file currently passed as its file
\* prop; content recovered from a previous file is never held (and shown)
\* for a new one.
C18_StoredContentIsOfCurrentFile ==
  recoveredContent # None => recoveredContent.from = rfile

\* ------------------------------------------------------------------------
\* Row/cell extraction on its own: inputs and the first attempt as a step
\* ------------------------------------------------------------------------

\* input worksheets: a document is a sequence of worksheet-data blocks, a
\* block a sequence of rows, a row a sequence of cells [form, value], or a
\* self-closed row element
XCell(form, value) == [form |-> form, value |-> value]
XRow(cells) == [selfClosed |-> FALSE, cells |-> cells]
SelfClosedRow == [selfClosed |-> TRUE, cells |-> <<>>]

WriteCell(c) ==
  CASE c.form = "plain" -> Xml.PlainOpen \o Xml.ValueOpen \o c.value \o Xml.ValueClose
    [] c.form = "shared" -> Xml.SharedOpen \o Xml.ValueOpen \o c.value \o Xml.ValueClose
    [] c.form = "inline" -> Xml.InlineOpen \o c.value \o Xml.InlineClose
    [] c.form = "formula" ->
         Xml.PlainOpen \o Xml.Formula \o Xml.ValueOpen \o c.value \o Xml.ValueClose

WriteRow(r) ==
  IF r.selfClosed THEN Xml.RowSelfClosed
  ELSE Xml.RowOpen \o Concat([k \in 1..Len(r.cells) |-> WriteCell(r.cells[k])])
       \o Xml.RowClose

WriteBlock(b) ==
  Xml.WorksheetOpen \o Xml.SheetDataOpen
  \o Concat([k \in 1..Len(b) |-> WriteRow(b[k])])
  \o Xml.SheetDataClose \o Xml.WorksheetClose

WriteBuffer(doc) == Sig_Zip \o Concat([k \in 1..Len(doc) |-> WriteBlock(doc[k])])

\* cell values: "5", "Hi", "0", " " and ""
Value == [Five |-> <<53>>, Hi |-> <<72, 105>>, Zero |-> <<48>>, Space |-> <<32>>,
          Empty |-> <<>>]

BlankRow == XRow(<<XCell("plain", Value.Space), XCell("plain", Value.Empty)>>)

BlockKinds ==
  { <<XRow(<<XCell("plain", Value.Five), XCell("plain", Value.Hi)>>)>>,
    <<BlankRow, XRow(<<XCell("shared", Value.Zero), XCell("plain", Value.Space)>>),
      BlankRow>>,
    <<XRow(<<XCell("inline", Value.Hi)>>), XRow(<<XCell("formula", Value.Five)>>)>>,
    <<SelfClosedRow, XRow(<<XCell("plain", Value.Hi), XCell("inline", Value.Hi)>>),
      XRow(<<>>)>>,
    <<BlankRow>> }

MaxBlocks == 4

ZipDocs == UNION { [1..n -> BlockKinds] : n \in 0..MaxBlocks }

\* attemptContentRecovery has read the bytes of a ZIP-signed file
InitZip ==
  /\ file = None /\ errorMsg = Null /\ CheckFresh /\ UploadIdle
  /\ pc = "recover"
  /\ zipDoc \in ZipDocs
  /\ rfile = [name |-> [stem |-> "book", ext |-> "xlsx"], lastModified |-> 1700000000,
              buf |-> <<Part(WriteBuffer(zipDoc), 1)>>]
  /\ showPreview = TRUE /\ isLoading = TRUE
  /\ recoveredContent = None /\ recoveryError = Null
  /\ inflight = {[id |-> 1, file |-> rfile]} /\ started = 1
  /\ fullText = <<>> /\ tables = <<>>

\* lines 62-160: the text is decoded and the first attempt builds the tables
RowCellExtraction ==
  /\ pc = "recover"
  /\ isZip(Bytes(rfile.buf))
  /\ fullText' = DecodeUtf8(Bytes(rfile.buf))
  /\ tables' = SheetTables(fullText', 0, 0)
  /\ pc' = "recovered"
  /\ UNCHANGED <<file, caller, results, metadataText, metadata, workbook, excelJsWorkbook,
                 sheetJs, excelJs, errorMsg, findings, diag, caught, report, outcome,
                 reads, readsAtReject, uploadError, appReport, appFile>>
  /\ UNCHANGED <<previewVars, zipDoc, uploadVars>>

NextZip == RowCellExtraction

SpecZip == InitZip /\ [][NextZip]_vars

\* a row with a cell, of any form, whose value is not blank
RowHasValue(r) == \E k \in 1..Len(r.cells) : NonBlank(r.cells[k].value)

\* the cells written as <c ...><v>VALUE</v></c>
IsValueCell(c) == c.form \in {"plain", "shared"}

\* a row with such a cell whose value is not blank
RowHasPlainValue(r) ==
  \E k \in 1..Len(r.cells) : IsValueCell(r.cells[k]) /\ NonBlank(r.cells[k].value)

\* the values of the row's cells of that form, in order
PlainValues(r) ==
  LET cs == SelectSeq(r.cells, IsValueCell) IN [k \in 1..Len(cs) |-> cs[k].value]

TablesNamedInOrder ==
  /\ Len(tables) = Len(zipDoc)
  /\ \A k \in 1..Len(tables) : tables[k].name = "Sheet " \o ToString(k)

\* C9 (as claimed): for a buffer with k <= 3 worksheet-data blocks, each with
\* a row that has a non-blank cell value, the extraction returns k tables
\* named 'Sheet 1' .. 'Sheet k' in block order, every table row coming from a
\* source row with a non-blank cell.
C9_EveryBlockWithValueYieldsTable ==
  (/\ pc = "recovered"
   /\ Len(zipDoc) <= MaxTables
   /\ \A b \in 1..Len(zipDoc) : \E r \in 1..Len(zipDoc[b]) : RowHasValue(zipDoc[b][r]))
    => /\ TablesNamedInOrder
       /\ \A k \in 1..Len(tables) : \A j \in 1..Len(tables[k].data) :
            \E r \in 1..Len(zipDoc[k]) :
              /\ RowHasValue(zipDoc[k][r])
              /\ tables[k].data[j] = PlainValues(zipDoc[k][r])

\* C9 (amended): for a buffer with k <= 3 worksheet-data blocks, each with a
\* row holding a cell of the form <c ...><v>VALUE</v></c> with a non-blank
\* VALUE, the extraction returns k tables named 'Sheet 1' .. 'Sheet k' in
\* block order; the rows of table i are, in order, the values of the cells of
\* that form of each source row of block i that has such a non-blank cell.
C9_EveryBlockWithPlainValueYieldsTable ==
  (/\ pc = "recovered"
   /\ Len(zipDoc) <= MaxTables
   /\ \A b \in 1..Len(zipDoc) : \E r \in 1..Len(zipDoc[b]) : RowHasPlainValue(zipDoc[b][r]))
    => /\ TablesNamedInOrder
       /\ \A k \in 1..Len(tables) :
            LET kept == SelectSeq(zipDoc[k], RowHasPlainValue)
            IN  tables[k].data = [j \in 1..Len(kept) |-> PlainValues(kept[j])]

\* C9 witness: three blocks, each with such a row, gave three tables, and a
\* source row was left out of one of them
C9_Witness ==
  /\ pc = "recovered"
  /\ Len(zipDoc) = MaxTables
  /\ \A b \in 1..Len(zipDoc) : \E r \in 1..Len(zipDoc[b]) : RowHasPlainValue(zipDoc[b][r])
  /\ Len(tables) = MaxTables
  /\ \E k \in 1..Len(tables) : Len(tables[k].data) < Len(zipDoc[k])

\* the blocks of a document that hold a row with a non-blank value cell, by
\* their position in the buffer
ProductiveBlocks(doc) ==
  LET Productive(b) == \E r \in 1..Len(doc[b]) : RowHasPlainValue(doc[b][r])
      RECURSIVE From(_)
      From(b) == IF b > Len(doc) THEN <<>>
                 ELSE (IF Productive(b) THEN <<b>> ELSE <<>>) \o From(b + 1)
  IN  From(1)

\* the tables 'Sheet 1', 'Sheet 2', .. made of the blocks bs of a document
TablesOf(doc, bs) ==
  [k \in 1..Len(bs) |->
     LET kept == SelectSeq(doc[bs[k]], RowHasPlainValue)
     IN  [name |-> "Sheet " \o ToString(k),
          data |-> [j \in 1..Len(kept) |-> PlainValues(kept[j])]]]

\* C22 (as claimed): row/cell extraction examines at most the first three
\* worksheet-data blocks of the buffer; a fourth or later block never
\* contributes a table, even when an earlier block yielded no non-empty row.
C22_OnlyFirstThreeBlocksExamined ==
  pc = "recovered"
    => tables = TablesOf(zipDoc, SelectSeq(ProductiveBlocks(zipDoc), LAMBDA b : b <= MaxTables))

\* C22 (amended): row/cell extraction returns at most three tables; the
\* blocks are examined in order until three of them have yielded a table or
\* no block is left, so the tables are those of the first three blocks that
\* hold a row with a non-blank value cell, wherever they stand in the buffer.
C22_FirstThreeTablesOfAllBlocks ==
  pc = "recovered"
    => LET bs == ProductiveBlocks(zipDoc)
       IN  tables = TablesOf(zipDoc, SubSeq(bs, 1, IF Len(bs) < MaxTables THEN Len(bs)
                                                   ELSE MaxTables))

\* C22 witness: the first of four blocks yielded no row and the fourth block
\* gave the third table
C22_Witness ==
  /\ pc = "recovered"
  /\ Len(zipDoc) = MaxTables + 1
  /\ ProductiveBlocks(zipDoc) = <<2, 3, 4>>
  /\ Len(tables) = MaxTables
  /\ tables[MaxTables].name = "Sheet 3"
  /\ tables[MaxTables].data = TablesOf(zipDoc, <<4>>)[1].data

\* ------------------------------------------------------------------------
\* Content recovery on its own: attemptContentRecovery on input buffers
\* (FileRecoveryPreview.tsx 30-60)
\* ------------------------------------------------------------------------

\* what the input documents are written with, as character codes:
\*   SheetOpen  <sheet name="
\*   SheetRest  " sheetId="1" r:id="rId1"/>
\*   SstOpen    <sst count="2">
\*   SiOpen     <si><t>
\*   SiClose    </t></si>
\*   SstClose   </sst>
\*   RowsOpen   <sheetData><row r="1">
\*   RowsClose  </row></sheetData>
\*   CellOpen   <c r="
\*   Shared     " t="s"><v>
\*   Plain      "><v>
\*   Inline     " t="inlineStr"><is><t>
Doc ==
  [ SheetOpen |-> <<60, 115, 104, 101, 101, 116, 32, 110, 97, 109, 101, 61, 34>>,
    SheetRest |-> <<34, 32, 115, 104, 101, 101, 116, 73, 100, 61, 34, 49, 34, 32, 114, 58, 105, 100,
        61, 34, 114, 73, 100, 49, 34, 47, 62>>,
    SstOpen |-> <<60, 115, 115, 116, 32, 99, 111, 117, 110, 116, 61, 34, 50, 34, 62>>,
    SiOpen |-> <<60, 115, 105, 62, 60, 116, 62>>,
    SiClose |-> <<60, 47, 116, 62, 60, 47, 115, 105, 62>>,
    SstClose |-> <<60, 47, 115, 115, 116, 62>>,
    RowsOpen |-> <<60, 115, 104, 101, 101, 116, 68, 97, 116, 97, 62, 60, 114, 111, 119, 32, 114, 61,
        34, 49, 34, 62>>,
    RowsClose |-> <<60, 47, 114, 111, 119, 62, 60, 47, 115, 104, 101, 101, 116, 68, 97, 116, 97,
        62>>,
    CellOpen |-> <<60, 99, 32, 114, 61, 34>>,
    Shared |-> <<34, 32, 116, 61, 34, 115, 34, 62, 60, 118, 62>>,
    Plain |-> <<34, 62, 60, 118, 62>>,
    Inline |-> <<34, 32, 116, 61, 34, 105, 110, 108, 105, 110, 101, 83, 116, 114, 34, 62, 60, 105,
        115, 62, 60, 116, 62>> ]

\* runs of printable bytes:
\*   Abc      abc
\*   Hello    Hello
\*   Digits   1234
\*   Padded     Hi
\*   Symbols  ab#$%^&*
\*   Line1    Name,Qty
\*   Line2    Pens,Two
\*   Line3    Inks,Six
\*   Seven10  abcdefg#$%
Run ==
  [ Abc |-> <<97, 98, 99>>,
    Hello |-> <<72, 101, 108, 108, 111>>,
    Digits |-> <<49, 50, 51, 52>>,
    Padded |-> <<32, 32, 72, 105, 32, 32>>,
    Symbols |-> <<97, 98, 35, 36, 37, 94, 38, 42>>,
    Line1 |-> <<78, 97, 109, 101, 44, 81, 116, 121>>,
    Line2 |-> <<80, 101, 110, 115, 44, 84, 119, 111>>,
    Line3 |-> <<73, 110, 107, 115, 44, 83, 105, 120>>,
    Seven10 |-> <<97, 98, 99, 100, 101, 102, 103, 35, 36, 37>> ]

\* sheet names:
\*   Plain        Q1
\*   OpenParen    Q1 (draft
\*   OpenBracket  Q[1
\*   Parens       (Q1)
\*   CloseParen   Q1)
SheetTitle ==
  [ Plain |-> <<81, 49>>,
    OpenParen |-> <<81, 49, 32, 40, 100, 114, 97, 102, 116>>,
    OpenBracket |-> <<81, 91, 49>>,
    Parens |-> <<40, 81, 49, 41>>,
    CloseParen |-> <<81, 49, 41>> ]

\* strings, column letters and cell values:
\*   Hello  Hello
\*   World  World
\*   A      A
\*   B      B
\*   AA     AA
\*   Hi     Hi
\*   Seven  7
\*   Zero   0
\*   One    1
\*   Five   5
\*   Empty
Str ==
  [ Hello |-> <<72, 101, 108, 108, 111>>,
    World |-> <<87, 111, 114, 108, 100>>,
    A |-> <<65>>,
    B |-> <<66>>,
    AA |-> <<65, 65>>,
    Hi |-> <<72, 105>>,
    Seven |-> <<55>>,
    Zero |-> <<48>>,
    One |-> <<49>>,
    Five |-> <<53>>,
    Empty |-> <<>> ]

\* a binary document: a prefix, runs of printable bytes with a zero byte
\* between two of them, and zero bytes at the end
BinaryDoc(prefix, runs, zeros) ==
  [kind |-> "binary", prefix |-> prefix, runs |-> runs, zeros |-> zeros]

WriteBinary(doc) ==
  doc.prefix
  \o Concat([k \in 1..Len(doc.runs) |->
               (IF k > 1 THEN <<0>> ELSE <<>>) \o doc.runs[k]])
  \o Repeat(<<0>>, doc.zeros)

RunKinds ==
  {Run.Abc, Run.Hello, Run.Digits, Run.Padded, Run.Symbols, Run.Line1, Run.Line2, Run.Line3,
   Run.Seven10}

MaxRuns == 3

ZeroLengths == {0, 1, 3, 4, 128}

BinaryDocs ==
  { BinaryDoc(<<>>, <<>>, n) : n \in ZeroLengths }
  \cup { BinaryDoc(frame[1], runs, frame[2]) :
           frame \in {<< <<>>, 0 >>, <<Sig_Xls8, 128>>},
           runs \in UNION { [1..n -> RunKinds] : n \in 1..MaxRuns } }

\* a cell element written with its coordinate
RCell(form, col, row, value) == [form |-> form, col |-> col, row |-> row, value |-> value]

\* a ZIP-signed document: a sheet declaration (none when the name is empty),
\* a string table (when sst), and cell elements inside a worksheet-data block
\* that is closed or cut off
ZipDoc(name, sst, strings, cells, closed) ==
  [kind |-> "zip", name |-> name, sst |-> sst, strings |-> strings, cells |-> cells,
   closed |-> closed]

WriteRCell(c) ==
  Doc.CellOpen \o c.col \o NumberText(c.row)
  \o (CASE c.form = "shared" -> Doc.Shared \o c.value \o Frag.VEnd
        [] c.form = "plain" -> Doc.Plain \o c.value \o Frag.VEnd
        [] c.form = "inline" -> Doc.Inline \o c.value \o Frag.IsTEnd)

WriteZip(doc) ==
  Sig_Zip
  \o (IF Len(doc.name) > 0 THEN Doc.SheetOpen \o doc.name \o Doc.SheetRest ELSE <<>>)
  \o (IF doc.sst
      THEN Doc.SstOpen
           \o Concat([k \in 1..Len(doc.strings) |->
                        Doc.SiOpen \o doc.strings[k] \o Doc.SiClose])
           \o Doc.SstClose
      ELSE <<>>)
  \o Doc.RowsOpen
  \o Concat([k \in 1..Len(doc.cells) |-> WriteRCell(doc.cells[k])])
  \o (IF doc.closed THEN Doc.RowsClose ELSE <<>>)

\* a ZIP-signed document made of worksheets, each with a worksheet-data block
BlocksDoc(blocks) == [kind |-> "blocks", blocks |-> blocks]

WriteDoc(doc) ==
  CASE doc.kind = "zip" -> WriteZip(doc)
    [] doc.kind = "blocks" -> WriteBuffer(doc.blocks)
    [] doc.kind = "binary" -> WriteBinary(doc)

StringTables ==
  { <<FALSE, <<>> >>, <<TRUE, <<>> >>, <<TRUE, <<Str.Hello>> >>,
    <<TRUE, <<Str.Hello, Str.World>> >>, <<TRUE, <<Str.Empty, Str.World>> >> }

CellLists ==
  { <<>>,
    <<RCell("shared", Str.A, 1, Str.Zero)>>,
    <<RCell("shared", Str.A, 1, Str.Zero), RCell("shared", Str.B, 1, Str.One)>>,
    <<RCell("shared", Str.A, 1, Str.One), RCell("plain", Str.A, 1, Str.Five)>>,
    <<RCell("inline", Str.B, 2, Str.Hi)>>,
    <<RCell("plain", Str.A, 1, Str.Seven), RCell("shared", Str.A, 2, Str.Zero)>>,
    <<RCell("shared", Str.AA, 1, Str.Zero), RCell("shared", Str.B, 1, Str.Zero),
      RCell("plain", Str.A, 10, Str.Hi)>>,
    <<RCell("shared", Str.A, 1, Str.Five)>>,
    <<RCell("inline", Str.A, 1, Str.Hello), RCell("inline", Str.B, 1, Str.World),
      RCell("inline", Str.A, 2, Str.Hi)>> }

RecoverZipDocs ==
  { ZipDoc(name, st[1], st[2], cells, closed) :
      name \in {<<>>, SheetTitle.Plain, SheetTitle.OpenParen, SheetTitle.OpenBracket,
                SheetTitle.Parens, SheetTitle.CloseParen},
      st \in StringTables, cells \in CellLists, closed \in BOOLEAN }

RecoverBlocksDocs ==
  { BlocksDoc(blocks) : blocks \in UNION { [1..n -> BlockKinds] : n \in 2..MaxTables } }

RecoverDocs == BinaryDocs \cup RecoverZipDocs \cup RecoverBlocksDocs

\* the preview was opened on a file and attemptContentRecovery awaits its bytes
InitRecover ==
  /\ CheckIdle /\ UploadIdle
  /\ zipDoc \in RecoverDocs
  /\ rfile = [name |-> [stem |-> "book", ext |-> IF zipDoc.kind = "binary" THEN "xls" ELSE "xlsx"],
              lastModified |-> 1700000000,
              buf |-> <<Part(WriteDoc(zipDoc), 1)>>]
  /\ showPreview = TRUE /\ isLoading = TRUE
  /\ recoveredContent = None /\ recoveryError = Null
  /\ inflight = {[id |-> 1, file |-> rfile]} /\ started = 1
  /\ fullText = <<>> /\ tables = <<>>

NextRecover ==
  \/ \E r \in inflight : RecoveryDone(r)
  \/ \E r \in inflight : RecoveryFails(r)

SpecRecover == InitRecover /\ [][NextRecover]_vars

\* the recovery settled and the bytes of the file were read
BytesWereRead == inflight = {} /\ recoveryError # "NotReadableError"

\* no run of a binary document passes the length test and both filters
NoRunSurvives(doc) ==
  \A k \in 1..Len(doc.runs) :
     \/ Len(doc.runs[k]) < MinRunLen
     \/ ~IsKeptBlock(Trim(doc.runs[k]))
     \/ ~IsCleanBlock(Trim(doc.runs[k]))

\* C14: for a buffer on the binary path from which no text run survives the
\* filters (a buffer of zero bytes of any length among them), the content
\* recovered has the fallback message as its only line of text, no table,
\* and type 'binary'.
C14_NoSurvivingRunGivesFallbackOnly ==
  (BytesWereRead /\ zipDoc.kind = "binary" /\ NoRunSurvives(zipDoc))
    => /\ recoveredContent # None
       /\ recoveredContent.text = <<Msg.NoReadableText>>
       /\ recoveredContent.tables = <<>>
       /\ recoveredContent.type = "binary"

\* C14 witness: three runs, a three-letter one and a numeric one among them,
\* none surviving, gave the fallback message
C14_Witness ==
  /\ BytesWereRead /\ zipDoc.kind = "binary" /\ NoRunSurvives(zipDoc)
  /\ Len(zipDoc.runs) = MaxRuns
  /\ \E k \in 1..MaxRuns : zipDoc.runs[k] = Run.Abc
  /\ \E k \in 1..MaxRuns : zipDoc.runs[k] = Run.Digits
  /\ recoveredContent # None
  /\ recoveredContent.text = <<Msg.NoReadableText>>

\* C17 (as claimed): for every buffer that begins with 50 4B 03 04, content
\* recovery completes with a RecoveredContent of type 'xml'; a sheet name
\* with regular-expression metacharacters does not abort the recovery.
C17_ZipRecoveryYieldsContent ==
  (BytesWereRead /\ isZip(Bytes(rfile.buf)))
    => (recoveredContent # None /\ recoveredContent.type = "xml")

\* the 'Recovered Spreadsheet' table of the content, when it has one
HasSpreadsheetTable(content) ==
  \E k \in 1..Len(content.tables) : content.tables[k].name = "Recovered Spreadsheet"

\* the value the table of rows data shows at a coordinate, or Null: the
\* first row holds the column letters, the first cell of a row its number
ShownAt(data, col, row) ==
  LET cs == {c \in 2..Len(data[1]) : data[1][c] = col}
      rs == {r \in 2..Len(data) : data[r][1] = NumberText(row)}
  IN  IF cs = {} \/ rs = {} THEN <<Null>>
      ELSE data[CHOOSE r \in rs : TRUE][CHOOSE c \in cs : TRUE]

\* C20 (as claimed): in the shared-string-indexed reconstruction, a cell of
\* the shared-string form with index i within the shared-string list, whose
\* coordinate no other cell element has, appears in the 'Recovered
\* Spreadsheet' table with the i-th shared string as its value.
C20_SharedCellShowsItsString ==
  (/\ BytesWereRead /\ zipDoc.kind = "zip"
   /\ recoveredContent # None
   /\ HasSpreadsheetTable(recoveredContent))
    => \A k \in 1..Len(zipDoc.cells) :
         LET c == zipDoc.cells[k]
             listed == SelectSeq(zipDoc.strings, LAMBDA t : Len(t) > 0)
         IN  (/\ c.form = "shared"
              /\ ParseInt(c.value) < Len(listed)
              /\ \A j \in 1..Len(zipDoc.cells) :
                   j # k => (zipDoc.cells[j].col # c.col \/ zipDoc.cells[j].row # c.row))
               => \E t \in 1..Len(recoveredContent.tables) :
                    /\ recoveredContent.tables[t].name = "Recovered Spreadsheet"
                    /\ ShownAt(recoveredContent.tables[t].data, c.col, c.row)
                         = listed[ParseInt(c.value) + 1]

\* the cell elements of a document that carry a coordinate and an inline
\* string or a plain value
ValueCells(doc) ==
  {k \in 1..Len(doc.cells) : doc.cells[k].form \in {"inline", "plain"}}

\* C21 (as claimed): when row/cell extraction yields no table and the buffer
\* holds a coordinate-bearing inline-string or value cell element, the
\* content has a 'Recovered Spreadsheet' table that shows the coordinate of
\* that cell, with or without a shared-string table section in the buffer.
C21_ValueCellsNeedNoStringTable ==
  (/\ BytesWereRead /\ zipDoc.kind = "zip"
   /\ recoveredContent # None
   /\ SheetTables(DecodeUtf8(Bytes(rfile.buf)), 0, 0) = <<>>
   /\ ValueCells(zipDoc) # {})
    => \A k \in ValueCells(zipDoc) :
         \E t \in 1..Len(recoveredContent.tables) :
            /\ recoveredContent.tables[t].name = "Recovered Spreadsheet"
            /\ ShownAt(recoveredContent.tables[t].data,
                       zipDoc.cells[k].col, zipDoc.cells[k].row) # <<Null>>

\* the 'Recovered Table' tables of a content
RecoveredTables(content) ==
  SelectSeq(content.tables, LAMBDA t : t.name = "Recovered Table")

\* C23 (as claimed): on the binary path the candidate table rows are taken
\* from the kept runs before the second filter: when three or more kept runs
\* hold a tab or comma with more than one delimited field, each of them is a
\* row of 'Recovered Table', also one that fails the second filter or
\* repeats an earlier run.
C23_TableRowsFromKeptRuns ==
  (/\ BytesWereRead /\ zipDoc.kind = "binary"
   /\ recoveredContent # None
   /\ Len(SelectSeq(TextBlocks(Bytes(rfile.buf)), IsTableLine)) >= MinTableLines)
    => /\ Len(RecoveredTables(recoveredContent)) = 1
       /\ Len(RecoveredTables(recoveredContent)[1].data)
            = Len(SelectSeq(TextBlocks(Bytes(rfile.buf)), IsTableLine))

\* the characters of a text that are normal text characters
NormalCount(t) == Cardinality({k \in 1..Len(t) : IsNormalChar(t[k])})

\* C24 (as claimed): on the binary path a kept run that meets the other
\* inclusion conditions is in the recovered text when at least 70% of its
\* characters are normal text characters, a run with exactly 70% (7 of 10)
\* among them.
C24_SeventyPercentIsIncluded ==
  (BytesWereRead /\ zipDoc.kind = "binary" /\ recoveredContent # None)
    => \A b \in 1..Len(TextBlocks(Bytes(rfile.buf))) :
         LET block == TextBlocks(Bytes(rfile.buf))[b]
         IN  (/\ Len(block) >= 3
              /\ HasLetterRun(block, 3)
              /\ ~HasControlChar(block)
              /\ 10 * NormalCount(block) >= 7 * Len(block))
               => \E k \in 1..Len(recoveredContent.text) : recoveredContent.text[k] = block

\* the names of the tables of a content, in order
TableNames(content) == [k \in 1..Len(content.tables) |-> content.tables[k].name]

\* C28: on the ZIP path the layers never mix: the tables returned are one to
\* three tables named 'Sheet 1', 'Sheet 2', 'Sheet 3' in sequence, or the
\* single table 'Recovered Spreadsheet', or the single table 'Recovered
\* Data', or none; the tables of row/cell extraction are returned alone when
\* there are any, 'Recovered Spreadsheet' only when row/cell extraction made
\* no table, and 'Recovered Data' or none only when the second attempt made
\* none either.
C28_LayersNeverMix ==
  (BytesWereRead /\ isZip(Bytes(rfile.buf)) /\ recoveredContent # None)
    => LET s == DecodeUtf8(Bytes(rfile.buf))
           names == TableNames(recoveredContent)
       IN  /\ names \in { <<>>, <<"Sheet 1">>, <<"Sheet 1", "Sheet 2">>,
                          <<"Sheet 1", "Sheet 2", "Sheet 3">>,
                          <<"Recovered Spreadsheet">>, <<"Recovered Data">> }
           /\ SheetTables(s, 0, 0) # <<>> => recoveredContent.tables = SheetTables(s, 0, 0)
           /\ names = <<"Recovered Spreadsheet">> => SheetTables(s, 0, 0) = <<>>
           /\ names \in {<<>>, <<"Recovered Data">>}
                => (SheetTables(s, 0, 0) = <<>> /\ SecondAttempt(s) = <<>>)

\* C28 witness: row/cell extraction made 'Sheet 1' from a buffer whose string
\* table and cells would have given the second attempt a table, and 'Sheet 1'
\* is all that was returned
C28_Witness ==
  /\ BytesWereRead /\ zipDoc.kind = "zip" /\ recoveredContent # None
  /\ zipDoc.sst /\ Len(zipDoc.strings) > 0
  /\ SecondAttempt(DecodeUtf8(Bytes(rfile.buf))) # <<>>
  /\ StringValues(DecodeUtf8(Bytes(rfile.buf))) # <<>>
  /\ TableNames(recoveredContent) = <<"Sheet 1">>

====
